---- MODULE Spec2Model ----
(***************************************************************************)
(* A model of the Suko Sudoku engine: the candidate-tracking Grid of the   *)
(* `suko` crate (src/src/grid.rs), the pointing strategy that narrows its  *)
(* masks (src/src/utils.rs), and the text parsing of Grid and of the       *)
(* suko-core Board (src/suko-core/src/board.rs).                           *)
(*                                                                         *)
(* A candidate mask (u16, bit d set <=> digit d allowed) is modelled as    *)
(* the set of digits whose bit is set.  Only bits 1..9 are ever set:       *)
(* all_candidates() is 0b11_1111_1110 and the code only ever clears bits.  *)
(* A string is a sequence of one-character strings.                        *)
(***************************************************************************)
EXTENDS Integers, Sequences, FiniteSets, TLC

VARIABLES
    g,       \* the Grid the caller holds: [cells, cands]
    pre,     \* the Grid as it was when the last operation was called
    last,    \* the last operation: [op, idx, d, res]
    ops,     \* number of Grid operations called so far
    text,    \* the input text handed to the parsers
    parsed,  \* Option<Grid> returned by Grid::from_compact: <<>> or <<grid>>
    board,   \* Option<Board> returned by Board::parse: <<>> or <<board>>
    out,     \* the String returned by Grid::to_compact (<<>> before the call)
    mode,    \* the SolveMode of the Solver ("none": no solver in use)
    pc,      \* where Solver::solve stands: "idle", "logical", "search", "done"
    at,      \* the strategy solve_logically tries next: 1..6, 7 past the last
    stack,   \* the activations of search, the innermost last
    ret,     \* what Solver::solve returned: "none", "Ok" or the error
    hist,    \* what this call of solve has invoked so far
    prev,    \* the outcome of the previous call of solve: <<>> or <<outcome>>
    gen,     \* PuzzleGenerator::generate_puzzle: its position and locals
    core,    \* Solver::solve_steps of suko-core: its position and locals
    brute,   \* BacktracingBruteSolver::solve_to_completion: position and locals
    call     \* a call of a function without state: [fn, arg, out]

solveVars == <<mode, pc, at, stack, ret, hist, prev>>

\* The variables of the solvers, which a session of Grid operations or of
\* parsing leaves alone.
engineVars == <<solveVars, gen, core, brute, call>>

\* The variables a call of Solver::solve leaves alone.
solveFrame == <<last, ops, text, parsed, board, out, gen, core, brute, call>>

vars == <<g, pre, last, ops, text, parsed, board, out, solveVars, gen, core, brute, call>>

----------------------------------------------------------------------------
(* Bounds of the model *)

\* Grid operations per behaviour of Spec.
MaxOps == 3

\* Edits applied to a base text to obtain one parser input.
MaxEdits == 1

\* Clues the generator is asked to remove: its targets are 81 - MaxBlanks
\* and more.
MaxBlanks == 4

\* The step budgets handed to solve_steps: Some(0) .. Some(MaxSteps), and
\* None.
MaxSteps == 3

\* The limits handed to count_solutions: 0 .. MaxLimit.
MaxLimit == 3

\* The outcomes of digits.shuffle considered start at a digit shifted by
\* 0 .. MaxShift.
MaxShift == 2

----------------------------------------------------------------------------
(* grid.rs *)

\* Indices of the 81 cells, row-major: Pos{r,c}.idx() = r*9 + c.
Cells == 0..80

idx_of(r, c) == r * 9 + c

\* all_candidates(): bits 1..=9 set.
all_candidates == 1..9

SetMin(S) == CHOOSE x \in S : \A y \in S : x <= y

\* bitcount(x): the number of set bits.
bitcount(m) == Cardinality(m)

\* first_bit(x): None (modelled as 0) for the empty mask, else the index of
\* the lowest set bit (trailing_zeros).
first_bit(m) == IF m = {} THEN 0 ELSE SetMin(m)

\* peers_of_idx with the box part left out.
peers_of_idx_nobox(idx) ==
    LET r == idx \div 9
        c == idx % 9
    IN  {r * 9 + i : i \in {i \in 0..8 : i # c}}
        \cup {i * 9 + c : i \in {i \in 0..8 : i # r}}

\* peers_of_idx(idx): the cells of the row, the column and the box of idx,
\* idx itself excluded; the Vec is sorted and deduplicated, so iterating it
\* visits the set in ascending order.
peers_of_idx(idx) ==
    LET r == idx \div 9
        c == idx % 9
        br == (r \div 3) * 3
        bc == (c \div 3) * 3
    IN  {r * 9 + i : i \in {i \in 0..8 : i # c}}
        \cup {i * 9 + c : i \in {i \in 0..8 : i # r}}
        \cup {p[1] * 9 + p[2] :
                p \in {p \in (br..(br + 2)) \X (bc..(bc + 2)) : p[1] # r \/ p[2] # c}}

PeersOf == [idx \in Cells |-> peers_of_idx(idx)]

\* Grid::empty()
empty == [cells |-> [i \in Cells |-> 0], cands |-> [i \in Cells |-> all_candidates]]

is_solved(grid) == \A i \in Cells : grid.cells[i] # 0

\* The peer loop that checks for a contradiction before clearing the bit.
eliminate_check_first(cells, cands, idx, d) ==
    LET dead == {q \in PeersOf[idx] : cells[q] = 0 /\ cands[q] = {}}
        stop == IF dead = {} THEN 81 ELSE SetMin(dead)
    IN  [res |-> IF dead = {} THEN "ok" ELSE "contradiction",
         cands |-> [q \in Cells |->
                      IF q \in PeersOf[idx] /\ q < stop THEN cands[q] \ {d} ELSE cands[q]]]

\* The peer loop that flips bit d (^=) instead of clearing it (&= !).
eliminate_toggle(cells, cands, idx, d) ==
    LET flip(m) == IF d \in m THEN m \ {d} ELSE m \cup {d}
        dead == {q \in PeersOf[idx] : cells[q] = 0 /\ flip(cands[q]) = {}}
        stop == IF dead = {} THEN 81 ELSE SetMin(dead)
    IN  [res |-> IF dead = {} THEN "ok" ELSE "contradiction",
         cands |-> [q \in Cells |->
                      IF q \in PeersOf[idx] /\ q <= stop THEN flip(cands[q]) ELSE cands[q]]]

\* The peer loop of place_idx (lines 66-69), run on the cells and masks as
\* they are after the digit was committed.  The peers are visited in
\* ascending order; each has bit d cleared and is then tested, and the first
\* empty peer left without candidates ends the loop with an error: the
\* peers after it keep their masks.
eliminate(cells, cands, idx, d) ==
    LET dead == {q \in PeersOf[idx] : cells[q] = 0 /\ cands[q] \ {d} = {}}
        stop == IF dead = {} THEN 81 ELSE SetMin(dead)
    IN  [res |-> IF dead = {} THEN "ok" ELSE "contradiction",
         cands |-> [q \in Cells |->
                      IF q \in PeersOf[idx] /\ q <= stop THEN cands[q] \ {d} ELSE cands[q]]]

\* The entry checks of place_idx without the early return.
place_guard_strict(grid, idx, d) ==
    IF d < 1 \/ d > 9 THEN "digit out of range"
    ELSE IF grid.cells[idx] # 0 THEN "cell already filled"
    ELSE IF d \notin grid.cands[idx] THEN "candidate not allowed"
    ELSE "place"

\* The entry checks of place_idx without the candidate test.
place_guard_nocand(grid, idx, d) ==
    IF d < 1 \/ d > 9 THEN "digit out of range"
    ELSE IF grid.cells[idx] = d THEN "ok"
    ELSE IF grid.cells[idx] # 0 THEN "cell already filled"
    ELSE "place"

\* The entry checks of place_idx (lines 59-62), in the code's order: the
\* error they raise, "ok" for the early return, or "place" to go on.
place_guard(grid, idx, d) ==
    IF d < 1 \/ d > 9 THEN "digit out of range"
    ELSE IF grid.cells[idx] = d THEN "ok"
    ELSE IF grid.cells[idx] # 0 THEN "cell already filled"
    ELSE IF d \notin grid.cands[idx] THEN "candidate not allowed"
    ELSE "place"

\* place_idx that commits the digit and leaves the masks of the peers alone.
place_idx_keep_peers(grid, idx, d) ==
    LET guard == place_guard(grid, idx, d) IN
    IF guard # "place" THEN [res |-> guard, grid |-> grid]
    ELSE [res |-> "ok",
          grid |-> [cells |-> [grid.cells EXCEPT ![idx] = d],
                    cands |-> [grid.cands EXCEPT ![idx] = {}]]]

\* place_idx(idx, d): the result and the grid the call leaves behind.
place_idx(grid, idx, d) ==
    LET guard == place_guard(grid, idx, d) IN
    IF guard # "place" THEN [res |-> guard, grid |-> grid]
    ELSE LET cells1 == [grid.cells EXCEPT ![idx] = d]
             cands1 == [grid.cands EXCEPT ![idx] = {}]
             e == eliminate(cells1, cands1, idx, d)
         IN  [res |-> e.res, grid |-> [cells |-> cells1, cands |-> e.cands]]

\* infer_all_candidates that keeps the masks it finds instead of resetting.
infer_cands_keep(grid) ==
    [q \in Cells |->
        IF grid.cells[q] # 0 THEN {}
        ELSE grid.cands[q] \ {grid.cells[i] : i \in {i \in Cells : grid.cells[i] # 0 /\ q \in PeersOf[i]}}]

\* The masks infer_all_candidates computes (lines 75-77): every mask is
\* reset to all candidates, the mask of a filled cell is cleared, and every
\* filled cell idx clears its digit in each q of peers_of_idx(idx).
infer_cands(grid) ==
    [q \in Cells |->
        IF grid.cells[q] # 0 THEN {}
        ELSE all_candidates \ {grid.cells[i] : i \in {i \in Cells : grid.cells[i] # 0 /\ q \in PeersOf[i]}}]

\* infer_all_candidates whose contradiction check does not ask whether the
\* cell is empty.
infer_all_candidates_anycell(grid) ==
    LET c == infer_cands(grid) IN
    [res |-> IF \E i \in Cells : c[i] = {} THEN "no candidates" ELSE "ok",
     grid |-> [cells |-> grid.cells, cands |-> c]]

\* infer_all_candidates(): the masks are stored before the contradiction
\* check of line 79, so they are replaced on failure too.
infer_all_candidates(grid) ==
    LET c == infer_cands(grid) IN
    [res |-> IF \E i \in Cells : grid.cells[i] = 0 /\ c[i] = {} THEN "no candidates" ELSE "ok",
     grid |-> [cells |-> grid.cells, cands |-> c]]

----------------------------------------------------------------------------
(* utils.rs: strategies *)

\* The box of cell i, boxes numbered row-major.
BoxIndex(i) == (i \div 27) * 3 + (i % 9) \div 3

\* The test `grid.cells[i]==0 && (grid.cands[i] & (1<<d))!=0`.
has_candidate(grid, i, d) == grid.cells[i] = 0 /\ d \in grid.cands[i]

\* The cells pointing_pair_triple changes for the box at (br, bc), digit d
\* and line kind ("row": lines 76-79, "col": lines 82-85): when the cells of
\* the box that have candidate d lie in one row (column) of the box, the
\* cells of that row (column) outside the box that have candidate d; none
\* otherwise.
pointing_targets(grid, br, bc, d, kind) ==
    LET inbox == {i \in {(br + rr) * 9 + (bc + cc) : rr \in 0..2, cc \in 0..2} :
                    has_candidate(grid, i, d)}
        lines == IF kind = "row" THEN {i \div 9 : i \in inbox} ELSE {i % 9 : i \in inbox}
    IN  IF Cardinality(lines) # 1 THEN {}
        ELSE LET t == CHOOSE x \in lines : TRUE
                 outside ==
                    IF kind = "row"
                    THEN {t * 9 + c : c \in {c \in 0..8 : c < bc \/ c >= bc + 3}}
                    ELSE {r * 9 + t : r \in {r \in 0..8 : r < br \/ r >= br + 3}}
             IN  {i \in outside : has_candidate(grid, i, d)}

\* The k-th attempt of pointing_pair_triple's scan: boxes row-major, digits
\* ascending within a box, the row test before the column test.
pointing_attempt(k) ==
    [br |-> ((k \div 18) \div 3) * 3,
     bc |-> ((k \div 18) % 3) * 3,
     d |-> (k % 18) \div 2 + 1,
     kind |-> IF k % 2 = 0 THEN "row" ELSE "col"]

\* pointing_pair_triple(grid): the first attempt of the scan that changes a
\* mask is applied and reported; the attempts before it change nothing.
pointing_pair_triple(grid) ==
    LET targets(k) == LET a == pointing_attempt(k)
                      IN  pointing_targets(grid, a.br, a.bc, a.d, a.kind)
        hits == {k \in 0..161 : targets(k) # {}}
    IN  IF hits = {} THEN [applied |-> FALSE, grid |-> grid]
        ELSE LET k == SetMin(hits)
                 d == pointing_attempt(k).d
             IN  [applied |-> TRUE,
                  grid |-> [cells |-> grid.cells,
                            cands |-> [i \in Cells |->
                                         IF i \in targets(k) THEN grid.cands[i] \ {d}
                                         ELSE grid.cands[i]]]]

\* The result of a strategy: the error of a failed placement or "ok",
\* whether the strategy reports progress (Ok(true)), and the grid it leaves.
\* A strategy's result that does not report the change it made.
Applied_unreported(grid) == [res |-> "ok", applied |-> FALSE, grid |-> grid]

Applied(grid) == [res |-> "ok", applied |-> TRUE, grid |-> grid]
NotApplied(grid) == [res |-> "ok", applied |-> FALSE, grid |-> grid]

\* The `grid.set(...)?` of a strategy followed by `return Ok(true)`.
set_and_report(grid, i, d) ==
    LET p == place_idx(grid, i, d)
    IN  [res |-> p.res, applied |-> p.res = "ok", grid |-> p.grid]

\* naked_single that finds nothing.
naked_single_blind(grid) == NotApplied(grid)

\* naked_single(grid) (lines 8-14): the first empty cell, in index order,
\* whose mask has one bit; the digit placed is first_bit(m) + 1 (line 11).
naked_single(grid) ==
    LET singles == {i \in Cells : grid.cells[i] = 0 /\ bitcount(grid.cands[i]) = 1}
    IN  IF singles = {} THEN NotApplied(grid)
        ELSE LET i == SetMin(singles)
             IN  set_and_report(grid, i, first_bit(grid.cands[i]) + 1)

\* The 27 units in the order hidden_single and naked_pair scan them: rows
\* 0..8, columns 0..8, boxes row-major.  The cells of a unit are visited in
\* ascending index order.
unit_cells(u) ==
    IF u < 9 THEN {u * 9 + c : c \in 0..8}
    ELSE IF u < 18 THEN {r * 9 + (u - 9) : r \in 0..8}
    ELSE LET br == ((u - 18) \div 3) * 3
             bc == ((u - 18) % 3) * 3
         IN  {(br + rr) * 9 + (bc + cc) : rr \in 0..2, cc \in 0..2}

\* hidden_single that scans the digits of a unit downwards from 9.
hidden_single_digits_down(grid) ==
    LET where(k) == {i \in unit_cells(k \div 9) : has_candidate(grid, i, 9 - (k % 9))}
        hits == {k \in 0..242 : Cardinality(where(k)) = 1}
    IN  IF hits = {} THEN NotApplied(grid)
        ELSE LET k == SetMin(hits)
                 i == CHOOSE x \in where(k) : TRUE
             IN  set_and_report(grid, i, 9 - (k % 9))

\* hidden_single(grid) (lines 16-43): attempt k is unit k \div 9 with digit
\* (k % 9) + 1; the first attempt whose digit is a candidate of exactly one
\* cell of the unit places it there.
hidden_single(grid) ==
    LET where(k) == {i \in unit_cells(k \div 9) : has_candidate(grid, i, (k % 9) + 1)}
        hits == {k \in 0..242 : Cardinality(where(k)) = 1}
    IN  IF hits = {} THEN NotApplied(grid)
        ELSE LET k == SetMin(hits)
                 i == CHOOSE x \in where(k) : TRUE
             IN  set_and_report(grid, i, (k % 9) + 1)

\* The cells the naked pair (i, j) of unit U changes: the other empty cells
\* of the unit whose mask shares a digit with the pair's mask.
pair_targets(grid, U, i, j) ==
    {k \in U \ {i, j} : grid.cells[k] = 0 /\ grid.cands[k] \cap grid.cands[i] # {}}

\* process_unit whose pair needs only one digit in common.
process_unit_overlap(grid, U) ==
    LET pairs == {p \in U \X U :
                    /\ p[1] # p[2]
                    /\ grid.cells[p[1]] = 0 /\ bitcount(grid.cands[p[1]]) = 2
                    /\ grid.cells[p[2]] = 0
                    /\ grid.cands[p[2]] \cap grid.cands[p[1]] # {}
                    /\ pair_targets(grid, U, p[1], p[2]) # {}}
    IN  IF pairs = {} THEN [found |-> FALSE, cands |-> grid.cands]
        ELSE LET i == SetMin({p[1] : p \in pairs})
                 j == SetMin({p[2] : p \in {q \in pairs : q[1] = i}})
                 t == pair_targets(grid, U, i, j)
             IN  [found |-> TRUE,
                  cands |-> [k \in Cells |->
                               IF k \in t THEN grid.cands[k] \ grid.cands[i]
                               ELSE grid.cands[k]]]

\* The closure process_unit of naked_pair (lines 49-62) on the unit U: i and
\* j run over the unit in index order; a pair is two empty cells with the
\* same two-bit mask; the first pair that changes a mask is applied and
\* reported, the pairs before it change nothing.
process_unit(grid, U) ==
    LET pairs == {p \in U \X U :
                    /\ p[1] # p[2]
                    /\ grid.cells[p[1]] = 0 /\ bitcount(grid.cands[p[1]]) = 2
                    /\ grid.cells[p[2]] = 0 /\ grid.cands[p[2]] = grid.cands[p[1]]
                    /\ pair_targets(grid, U, p[1], p[2]) # {}}
    IN  IF pairs = {} THEN [found |-> FALSE, cands |-> grid.cands]
        ELSE LET i == SetMin({p[1] : p \in pairs})
                 j == SetMin({p[2] : p \in {q \in pairs : q[1] = i}})
                 t == pair_targets(grid, U, i, j)
             IN  [found |-> TRUE,
                  cands |-> [k \in Cells |->
                               IF k \in t THEN grid.cands[k] \ grid.cands[i]
                               ELSE grid.cands[k]]]

\* naked_pair(grid) (lines 45-67): the first row with progress ends the
\* scan; without one, the first column; without one, the boxes, where the
\* `break` of line 65 leaves only the inner loop over bc, so that in each
\* band of boxes the first box with progress is processed.
naked_pair(grid) ==
    LET found(u) == process_unit(grid, unit_cells(u)).found
        rows == {u \in 0..8 : found(u)}
        cols == {u \in 9..17 : found(u)}
        band(b) == {u \in (18 + 3 * b)..(20 + 3 * b) : found(u)}
        boxes == {SetMin(band(b)) : b \in {b \in 0..2 : band(b) # {}}}
        chosen == IF rows # {} THEN {SetMin(rows)}
                  ELSE IF cols # {} THEN {SetMin(cols)}
                  ELSE boxes
    IN  IF chosen = {} THEN NotApplied(grid)
        ELSE Applied([cells |-> grid.cells,
                      cands |-> [k \in Cells |->
                                   IF \E u \in chosen : k \in unit_cells(u)
                                   THEN LET u == CHOOSE u \in chosen : k \in unit_cells(u)
                                        IN  process_unit(grid, unit_cells(u)).cands[k]
                                   ELSE grid.cands[k]]])

\* The k-th attempt of box_line_reduction's scan: the rows before the
\* columns, the lines ascending, the digits ascending within a line.
box_line_attempt(k) ==
    [kind |-> IF k < 81 THEN "row" ELSE "col",
     line |-> (k % 81) \div 9,
     d |-> (k % 9) + 1]

\* The cells box_line_reduction changes for a line and digit d (lines 99,
\* 105): when the cells of the line that have candidate d lie in one box,
\* the cells of that box outside the line that have candidate d.
box_line_targets(grid, kind, line, d) ==
    LET online == {i \in (IF kind = "row" THEN unit_cells(line) ELSE unit_cells(9 + line)) :
                     has_candidate(grid, i, d)}
        boxes == {BoxIndex(i) : i \in online}
    IN  IF Cardinality(boxes) # 1 THEN {}
        ELSE LET b == CHOOSE x \in boxes : TRUE
             IN  {i \in unit_cells(18 + b) :
                    /\ (IF kind = "row" THEN i \div 9 ELSE i % 9) # line
                    /\ has_candidate(grid, i, d)}

\* box_line_reduction(grid) (lines 93-108): the first attempt that changes
\* a mask is applied and reported.
box_line_reduction(grid) ==
    LET targets(k) == LET a == box_line_attempt(k)
                      IN  box_line_targets(grid, a.kind, a.line, a.d)
        hits == {k \in 0..161 : targets(k) # {}}
    IN  IF hits = {} THEN NotApplied(grid)
        ELSE LET k == SetMin(hits)
                 d == box_line_attempt(k).d
             IN  Applied([cells |-> grid.cells,
                          cands |-> [i \in Cells |->
                                       IF i \in targets(k) THEN grid.cands[i] \ {d}
                                       ELSE grid.cands[i]]])

\* The k-th attempt of x_wing's scan: digits ascending; for a digit the
\* rows part before the columns part; in a part the pairs (a, b) of lines,
\* a < b, in the order of the nested loops over row_cols (col_rows).
x_wing_attempt(k) ==
    [d |-> k \div 162 + 1,
     kind |-> IF (k % 162) < 81 THEN "row" ELSE "col",
     a |-> (k % 81) \div 9,
     b |-> k % 9]

\* The cell of line l at position p: (row l, column p) for the rows part,
\* (row p, column l) for the columns part.
line_cell(kind, l, p) == IF kind = "row" THEN l * 9 + p ELSE p * 9 + l

\* `positions` of lines 115, 119: where line l has candidate d.
x_wing_positions(grid, kind, l, d) ==
    {p \in 0..8 : has_candidate(grid, line_cell(kind, l, p), d)}

\* The cells x_wing changes for digit d and the lines a < b (lines 116,
\* 120): when both lines have candidate d at the same two positions, the
\* cells of the other lines at those positions that have candidate d.
x_wing_targets(grid, kind, a, b, d) ==
    LET pa == x_wing_positions(grid, kind, a, d)
        pb == x_wing_positions(grid, kind, b, d)
    IN  IF a < b /\ Cardinality(pa) = 2 /\ pa = pb
        THEN {i \in {line_cell(kind, l, p) : l \in 0..8 \ {a, b}, p \in pa} :
                has_candidate(grid, i, d)}
        ELSE {}

\* x_wing(grid) (lines 110-123): the first attempt that changes a mask is
\* applied and reported.
x_wing(grid) ==
    LET targets(k) == LET t == x_wing_attempt(k)
                      IN  x_wing_targets(grid, t.kind, t.a, t.b, t.d)
        hits == {k \in 0..1457 : targets(k) # {}}
    IN  IF hits = {} THEN NotApplied(grid)
        ELSE LET k == SetMin(hits)
                 d == x_wing_attempt(k).d
             IN  Applied([cells |-> grid.cells,
                          cands |-> [i \in Cells |->
                                       IF i \in targets(k) THEN grid.cands[i] \ {d}
                                       ELSE grid.cands[i]]])

----------------------------------------------------------------------------
(* Text: a String is a sequence of chars; a char is a one-character string, *)
(* and "U+00B7" stands for the char of to_pretty_string's blank, which is   *)
(* two bytes long in UTF-8.                                                 *)

DigitChars == <<"1", "2", "3", "4", "5", "6", "7", "8", "9">>

\* char::len_utf8 on the model's alphabet.
len_utf8(ch) == IF ch = "U+00B7" THEN 2 ELSE 1

\* str::len(): the length in bytes, not in chars (a char of UTF-8 is 1 to 4
\* bytes long).
str_len(s) ==
    LET n(w) == Cardinality({i \in 1..Len(s) : len_utf8(s[i]) = w})
    IN  n(1) + 2 * n(2) + 3 * n(3) + 4 * n(4)

\* The match of from_compact (line 26): '.'|'0' => 0, '1'..='9' => the
\* digit, anything else => bail (modelled as -1).
compact_value(ch) ==
    IF ch \in {".", "0"} THEN 0
    ELSE IF \E d \in 1..9 : DigitChars[d] = ch THEN CHOOSE d \in 1..9 : DigitChars[d] = ch
    ELSE -1

\* One iteration of the loop of from_compact (lines 26-27) for the char at
\* index i (0-based, as enumerate counts): an invalid char or a failed
\* placement is the error returned.
from_compact_step(grid, s, i) ==
    LET v == compact_value(s[i + 1]) IN
    IF v < 0 THEN [res |-> "invalid char", grid |-> grid]
    ELSE IF v = 0 THEN [res |-> "ok", grid |-> grid]
    ELSE place_idx(grid, i, v)

\* The iterations lo..hi-1 of the loop of from_compact, in order, from the
\* state st = [res, grid]; the first error ends the loop.  The range is
\* halved only to keep the evaluation shallow.
RECURSIVE from_compact_loop(_, _, _, _)
from_compact_loop(st, s, lo, hi) ==
    IF st.res # "ok" \/ lo >= hi THEN st
    ELSE IF hi = lo + 1 THEN from_compact_step(st.grid, s, lo)
    ELSE LET mid == (lo + hi) \div 2
         IN  from_compact_loop(from_compact_loop(st, s, lo, mid), s, mid, hi)

\* from_compact that only refuses a string longer than 81 bytes.
from_compact_accepts_short(s) ==
    IF str_len(s) > 81 THEN [res |-> "compact string must be 81 chars", grid |-> empty]
    ELSE from_compact_loop([res |-> "ok", grid |-> empty], s, 0, Len(s))

\* Grid::from_compact(s): the result, and the grid built (returned on "ok").
from_compact(s) ==
    IF str_len(s) # 81 THEN [res |-> "compact string must be 81 chars", grid |-> empty]
    ELSE from_compact_loop([res |-> "ok", grid |-> empty], s, 0, Len(s))

\* to_compact that writes a blank as '0'.
to_compact_zero(grid) ==
    [i \in 1..81 |-> IF grid.cells[i - 1] = 0 THEN "0" ELSE DigitChars[grid.cells[i - 1]]]

\* Grid::to_compact(): '.' for an empty cell, else the char b'0' + d.
to_compact(grid) ==
    [i \in 1..81 |-> IF grid.cells[i - 1] = 0 THEN "." ELSE DigitChars[grid.cells[i - 1]]]

----------------------------------------------------------------------------
(* board.rs *)

\* The match of Board::parse (lines 35-39): '1'..='9' pushes the digit,
\* '0' | '.' | '_' pushes 0, any other char is ignored (modelled as -1).
board_value(ch) ==
    IF ch \in {"0", ".", "_"} THEN 0
    ELSE IF \E d \in 1..9 : DigitChars[d] = ch THEN CHOOSE d \in 1..9 : DigitChars[d] = ch
    ELSE -1

\* The Vec `digits` of Board::parse.
parse_digits(t) ==
    LET kept == SelectSeq(t, LAMBDA ch : board_value(ch) >= 0)
    IN  [i \in 1..Len(kept) |-> board_value(kept[i])]

\* Board::parse that fills the board column by column.
parse_cells_transposed(digits) ==
    [r \in 0..8 |-> [c \in 0..8 |->
        [value |-> digits[c * 9 + r + 1], fixed |-> digits[c * 9 + r + 1] # 0]]]

\* The cells Board::parse builds from 81 digits (line 43).
parse_cells(digits) ==
    [r \in 0..8 |-> [c \in 0..8 |->
        [value |-> digits[r * 9 + c + 1], fixed |-> digits[r * 9 + c + 1] # 0]]]

\* Board::parse(text): the result and the Option<Board> returned.
parse(t) ==
    LET digits == parse_digits(t) IN
    IF Len(digits) # 81 THEN [res |-> "expected 81 digits/dots", board |-> <<>>]
    ELSE [res |-> "ok", board |-> <<[cells |-> parse_cells(digits)]>>]

\* Board::empty(): every cell is Cell::default().
board_empty == [cells |-> [r \in 0..8 |-> [c \in 0..8 |-> [value |-> 0, fixed |-> FALSE]]]]

\* Board::from_rows(rows) for the 81 values given row-major (lines 22-29).
from_rows(values) ==
    [cells |-> [r \in 0..8 |-> [c \in 0..8 |->
        [value |-> values[r * 9 + c], fixed |-> values[r * 9 + c] # 0]]]]

\* b.cells[r][c].value
value_at(b, r, c) == b.cells[r][c].value

\* `b.cells[r][c].value = v`
with_value(b, r, c, v) == [b EXCEPT !.cells[r][c].value = v]

\* row_values, col_values and box_values (lines 57-64): the nine values of
\* a unit, as an array indexed from 1.
row_values(b, r) == [k \in 1..9 |-> value_at(b, r, k - 1)]
col_values(b, c) == [k \in 1..9 |-> value_at(b, k - 1, c)]
box_values(b, br, bc) ==
    [k \in 1..9 |-> value_at(b, br * 3 + ((k - 1) \div 3), bc * 3 + ((k - 1) % 3))]

\* no_dupes(vals) (lines 131-135): no nonzero value occurs twice.
no_dupes(vals) == \A i, j \in 1..9 : (i < j /\ vals[i] # 0) => vals[i] # vals[j]

\* Board::is_valid() (lines 47-53)
is_valid(b) ==
    /\ \A r \in 0..8 : no_dupes(row_values(b, r))
    /\ \A c \in 0..8 : no_dupes(col_values(b, c))
    /\ \A br \in 0..2, bc \in 0..2 : no_dupes(box_values(b, br, bc))

\* The `counts` array of conflict_mask for the nine values of a unit: how
\* often each nonzero value occurs.
counts_of(vals) == [v \in 1..9 |-> Cardinality({k \in 1..9 : vals[k] = v})]

\* conflict_mask that looks at rows and columns only.
conflict_mask_lines(b) ==
    [r \in 0..8 |-> [c \in 0..8 |->
        \E v \in {value_at(b, r, c)} :
           /\ v # 0
           /\ \/ counts_of(row_values(b, r))[v] > 1
              \/ counts_of(col_values(b, c))[v] > 1]]

\* Board::conflict_mask() (lines 79-128): the passes over the rows, the
\* columns and the boxes each set mask[r][c] for a nonzero value that its
\* unit counts more than once; the mask is the union of the three passes.
conflict_mask(b) ==
    [r \in 0..8 |-> [c \in 0..8 |->
        \E v \in {value_at(b, r, c)} :
           /\ v # 0
           /\ \/ counts_of(row_values(b, r))[v] > 1
              \/ counts_of(col_values(b, c))[v] > 1
              \/ counts_of(box_values(b, r \div 3, c \div 3))[v] > 1]]

\* Board::is_solved() (line 55)
board_is_solved(b) == (\A r \in 0..8, c \in 0..8 : value_at(b, r, c) # 0) /\ is_valid(b)

\* Board::candidates(r, c) (lines 66-76): the array [bool; 10] as the set of
\* the v in 1..9 whose entry is true.  A filled cell allows its own value
\* only; an empty cell allows what its row, column and box do not hold.
candidates(b, r, c) ==
    IF value_at(b, r, c) # 0 THEN {value_at(b, r, c)}
    ELSE LET forb == {row_values(b, r)[k] : k \in 1..9}
                     \cup {col_values(b, c)[k] : k \in 1..9}
                     \cup {box_values(b, r \div 3, c \div 3)[k] : k \in 1..9}
         IN  {v \in 1..9 : v \notin forb}

\* The empty cells of a board, as row-major indices.
empty_cells(b) == {i \in Cells : value_at(b, i \div 9, i % 9) = 0}

----------------------------------------------------------------------------
(* puzzle.rs *)

\* backtrack of count_solutions (lines 85-101) without its cap: the full
\* boards it counts below b.  It branches on the first empty cell
\* (find_empty, line 102) over its candidates and counts a full board that
\* is valid.
RECURSIVE completions(_)
completions(b) ==
    IF empty_cells(b) = {} THEN (IF is_valid(b) THEN {b} ELSE {})
    ELSE UNION {UNION {completions(with_value(b, e \div 9, e % 9, d)) :
                         d \in candidates(b, e \div 9, e % 9)} :
                  e \in {SetMin(empty_cells(b))}}

\* count_solutions(b, limit) (lines 84-106): backtrack stops counting as
\* soon as the count has reached the limit, so the count returned is the
\* number of completions, capped.
count_solutions(b, limit) ==
    CHOOSE n \in {IF k < limit THEN k ELSE limit : k \in {Cardinality(completions(b))}} : TRUE

\* A run of backtrack: the board it works on, the count, and `late`, the
\* number of values written into a cell once the count had reached the
\* limit.
Run(b) == [b |-> b, count |-> 0, late |-> 0]

RECURSIVE backtrack(_, _)
RECURSIVE try_digits(_, _, _, _, _, _)
RECURSIVE backtrack_all_digits(_, _)
RECURSIVE try_digits_all(_, _, _, _, _, _)

\* The loop `for d in 1..=9u8` of backtrack (lines 89-96) from digit d on:
\* a candidate is written into the cell, backtrack is called, the cell is
\* emptied again, and the loop is left when the count has reached the
\* limit.
try_digits(run, limit, r, c, cand, d) ==
    IF d > 9 THEN run
    ELSE IF d \notin cand THEN try_digits(run, limit, r, c, cand, d + 1)
    ELSE CHOOSE res \in
            {IF restored.count >= limit THEN restored
             ELSE try_digits(restored, limit, r, c, cand, d + 1) :
                restored \in {[back EXCEPT !.b = with_value(@, r, c, 0)] :
                    back \in {backtrack(
                                 [run EXCEPT !.b = with_value(@, r, c, d),
                                             !.late = @ + IF run.count >= limit THEN 1 ELSE 0],
                                 limit)}}} : TRUE

\* The loop over the digits without the test of line 94.
try_digits_all(run, limit, r, c, cand, d) ==
    IF d > 9 THEN run
    ELSE IF d \notin cand THEN try_digits_all(run, limit, r, c, cand, d + 1)
    ELSE CHOOSE res \in
            {try_digits_all([back EXCEPT !.b = with_value(@, r, c, 0)], limit, r, c, cand, d + 1) :
                back \in {backtrack_all_digits(
                             [run EXCEPT !.b = with_value(@, r, c, d),
                                         !.late = @ + IF run.count >= limit THEN 1 ELSE 0],
                             limit)}} : TRUE

\* backtrack whose loop goes through every candidate.
backtrack_all_digits(run, limit) ==
    IF run.count >= limit THEN run
    ELSE IF empty_cells(run.b) = {}
         THEN (IF is_valid(run.b) THEN [run EXCEPT !.count = @ + 1] ELSE run)
    ELSE CHOOSE res \in
            {try_digits_all(run, limit, e \div 9, e % 9, candidates(run.b, e \div 9, e % 9), 1) :
                e \in {SetMin(empty_cells(run.b))}} : TRUE

\* backtrack(b, count, limit) (lines 85-101): it returns at once when the
\* count has reached the limit, counts a full board that is valid, and
\* else goes through the candidates of the first empty cell (find_empty,
\* line 102).
backtrack(run, limit) ==
    IF run.count >= limit THEN run
    ELSE IF empty_cells(run.b) = {}
         THEN (IF is_valid(run.b) THEN [run EXCEPT !.count = @ + 1] ELSE run)
    ELSE CHOOSE res \in
            {try_digits(run, limit, e \div 9, e % 9, candidates(run.b, e \div 9, e % 9), 1) :
                e \in {SetMin(empty_cells(run.b))}} : TRUE

\* The test of line 43 that keeps every cell whose removal leaves a
\* solution.
keep_cleared_solvable(count) == count >= 1

\* The test of line 43, negated: the cell stays cleared when the count is 1.
keep_cleared(count) == count = 1

\* The scan of find_next_mrv (lines 75-80) over the candidate counts of the
\* empty cells: the first empty cell without a candidate if there is one,
\* else the first of the empty cells with the fewest candidates.
first_fewest(cnt) ==
    IF \E i \in DOMAIN cnt : cnt[i] = 0 THEN SetMin({i \in DOMAIN cnt : cnt[i] = 0})
    ELSE SetMin({i \in DOMAIN cnt : \A j \in DOMAIN cnt : cnt[i] <= cnt[j]})

\* find_next_mrv(b) (lines 73-82): None (found = FALSE) on a board without
\* an empty cell, else the cell the scan ends with.
find_next_mrv(b) ==
    CHOOSE m \in
        {IF DOMAIN cnt = {} THEN [found |-> FALSE, r |-> 0, c |-> 0]
         ELSE [found |-> TRUE, r |-> first_fewest(cnt) \div 9, c |-> first_fewest(cnt) % 9] :
            cnt \in {[i \in empty_cells(b) |->
                        Cardinality(candidates(b, i \div 9, i % 9))]}} : TRUE

\* The fixed flags left as they are.
mark_fixed_never(b) == b

\* Lines 22 and 51: every nonzero cell is marked fixed.
mark_fixed(b) ==
    [cells |-> [r \in 0..8 |-> [c \in 0..8 |->
        [value |-> value_at(b, r, c), fixed |-> value_at(b, r, c) # 0]]]]

\* The loop body that decrements the counter whether the cell stays cleared
\* or is restored.
remove_clue_always_counted(b, clues, idx) ==
    LET r == idx \div 9
        c == idx % 9
        old == value_at(b, r, c)
        cleared == [b EXCEPT !.cells[r][c] = [value |-> 0, fixed |-> FALSE]]
        count == count_solutions(cleared, 2)
    IN  IF old = 0 THEN [b |-> b, clues |-> clues, count |-> -1]
        ELSE IF keep_cleared(count) THEN [b |-> cleared, clues |-> clues - 1, count |-> count]
        ELSE [b |-> with_value(cleared, r, c, old), clues |-> clues - 1, count |-> count]

\* One iteration of the loop of generate_puzzle (lines 33-48) for the
\* position idx: the board and the counter it leaves, and the count
\* count_solutions returned (-1 when the cell was empty: `continue`).
remove_clue(b, clues, idx) ==
    LET r == idx \div 9
        c == idx % 9
        old == value_at(b, r, c)
        cleared == [b EXCEPT !.cells[r][c] = [value |-> 0, fixed |-> FALSE]]
        count == count_solutions(cleared, 2)
    IN  IF old = 0 THEN [b |-> b, clues |-> clues, count |-> -1]
        ELSE IF keep_cleared(count) THEN [b |-> cleared, clues |-> clues - 1, count |-> count]
        ELSE [b |-> with_value(cleared, r, c, old), clues |-> clues, count |-> count]

----------------------------------------------------------------------------
(* suko-core/src/solver.rs *)

\* `b.cells[r][c].value == 0 && b.candidates(r, c)[v]`
open_for(b, r, c, v) == value_at(b, r, c) = 0 /\ v \in candidates(b, r, c)

\* A Step (lines 12-16); r, c, v and reason are those of a Place or a Guess
\* and are 0 and "" for a Backtrack.
Step(index, kind, r, c, v, reason, b) ==
    [index |-> index, kind |-> kind, r |-> r, c |-> c, v |-> v, reason |-> reason, board |-> b]

\* find_mrv(b) (lines 91-106): the first empty cell without a candidate if
\* there is one, else the first of the empty cells with the fewest
\* candidates; "none" on a board without an empty cell.
find_mrv(b) ==
    LET E == empty_cells(b)
        count(i) == Cardinality(candidates(b, i \div 9, i % 9))
        Z == {i \in E : count(i) = 0}
        best == SetMin({i \in E : \A j \in E : count(i) <= count(j)})
        at_cell(i) == [kind |-> "cell", r |-> i \div 9, c |-> i % 9,
                       cand |-> candidates(b, i \div 9, i % 9)]
    IN  IF E = {} THEN [kind |-> "none", r |-> 0, c |-> 0, cand |-> {}]
        ELSE IF Z # {} THEN at_cell(SetMin(Z))
        ELSE at_cell(best)

\* any_zero_candidate(b) (lines 107-113)
any_zero_candidate(b) ==
    \E i \in empty_cells(b) : candidates(b, i \div 9, i % 9) = {}

\* The result of a find_* function: None, or Some((r, c, v, reason)).
None == [found |-> FALSE, r |-> 0, c |-> 0, v |-> 0, reason |-> ""]
Some(r, c, v, reason) == [found |-> TRUE, r |-> r, c |-> c, v |-> v, reason |-> reason]

\* find_naked_single(b) (lines 176-183): the first empty cell, row-major,
\* with exactly one candidate.
find_naked_single(b) ==
    LET hits == {i \in empty_cells(b) : Cardinality(candidates(b, i \div 9, i % 9)) = 1}
    IN  IF hits = {} THEN None
        ELSE LET i == SetMin(hits)
             IN  Some(i \div 9, i % 9, SetMin(candidates(b, i \div 9, i % 9)), "Naked single")

\* The empty cells of unit u (0..8 rows, 9..17 columns, 18..26 boxes) that
\* have v as a candidate: the cells `counts[v]` counts (lines 189, 195, 201).
unit_places(b, u, v) == {i \in unit_cells(u) : open_for(b, i \div 9, i % 9, v)}

\* find_hidden_single(b) (lines 185-205): rows, then columns, then boxes,
\* and the digits 1..9 in each; attempt k is unit k \div 9 with digit
\* (k % 9) + 1.
find_hidden_single(b) ==
    LET hits == {k \in 0..242 : Cardinality(unit_places(b, k \div 9, (k % 9) + 1)) = 1}
    IN  IF hits = {} THEN None
        ELSE LET k == SetMin(hits)
                 i == CHOOSE i \in unit_places(b, k \div 9, (k % 9) + 1) : TRUE
             IN  Some(i \div 9, i % 9, (k % 9) + 1, "Hidden single")

\* mask_from_candidates(cand) (line 228): the mask as the set of its bits.
mask_from_candidates(cand) == {v \in 1..9 : v \in cand}

\* The pointing test of apply_locked_pointing_claiming (lines 239-259) for
\* the digit v: the box scanned is the box (br, bc) of the cell (r, c)
\* itself.
pointing_removes(b, r, c, v) ==
    LET br == r \div 3
        bc == c \div 3
        open == {i \in unit_cells(18 + br * 3 + bc) : open_for(b, i \div 9, i % 9, v)}
        rows_in_box == {(i \div 9) % 3 : i \in open}
        cols_in_box == {(i % 9) % 3 : i \in open}
    IN  \/ /\ Cardinality(rows_in_box) = 1
           /\ r = br * 3 + SetMin(rows_in_box)
           /\ (c \div 3) # bc
        \/ /\ Cardinality(cols_in_box) = 1
           /\ c = bc * 3 + SetMin(cols_in_box)
           /\ (r \div 3) # br

\* Claiming from a row that also clears v in the cells of the row itself.
claiming_row_removes_in_row(b, r, c, v) ==
    \E r0 \in 0..8 :
        LET boxes == {cc \div 3 : cc \in {x \in 0..8 : open_for(b, r0, x, v)}}
        IN  /\ Cardinality(boxes) = 1
            /\ (r \div 3) = (r0 \div 3)
            /\ (c \div 3) = SetMin(boxes)

\* Claiming from a row (lines 263-273): some row r0 has all its places for v
\* in one box, the box of (r, c), and r # r0.
claiming_row_removes(b, r, c, v) ==
    \E r0 \in 0..8 :
        LET boxes == {cc \div 3 : cc \in {x \in 0..8 : open_for(b, r0, x, v)}}
        IN  /\ Cardinality(boxes) = 1
            /\ (r \div 3) = (r0 \div 3)
            /\ (c \div 3) = SetMin(boxes)
            /\ r # r0

\* Claiming from a column (lines 275-285)
claiming_col_removes(b, r, c, v) ==
    \E c0 \in 0..8 :
        LET boxes == {rr \div 3 : rr \in {x \in 0..8 : open_for(b, x, c0, v)}}
        IN  /\ Cardinality(boxes) = 1
            /\ (r \div 3) = SetMin(boxes)
            /\ (c \div 3) = (c0 \div 3)
            /\ c # c0

\* apply_locked_pointing_claiming without the two claiming loops.
apply_locked_pointing_only(b, r, c, mask) ==
    {v \in mask : ~pointing_removes(b, r, c, v)}

\* apply_locked_pointing_claiming(b, r, c, mask) (lines 230-288)
apply_locked_pointing_claiming(b, r, c, mask) ==
    {v \in mask : ~(\/ pointing_removes(b, r, c, v)
                    \/ claiming_row_removes(b, r, c, v)
                    \/ claiming_col_removes(b, r, c, v))}

\* unit_candidates_row, _col and _box (lines 298-300): the candidates of the
\* nine cells of a unit, filled cells included.
unit_candidates_row(b, r) == [k \in 1..9 |-> candidates(b, r, k - 1)]
unit_candidates_col(b, c) == [k \in 1..9 |-> candidates(b, k - 1, c)]
unit_candidates_box(b, br, bc) ==
    [k \in 1..9 |-> candidates(b, br * 3 + ((k - 1) \div 3), bc * 3 + ((k - 1) % 3))]

\* reduce_by_naked_pairs_unit(current_mask, unit_cands) (lines 302-318):
\* `valids` are the masks of two candidates held by exactly two cells of the
\* unit; each one that differs from current_mask is cleared from it.
reduce_by_naked_pairs_unit(current_mask, unit_cands) ==
    LET valids == {unit_cands[i] : i \in {k \in 1..9 :
                      /\ Cardinality(unit_cands[k]) = 2
                      /\ Cardinality({j \in 1..9 : unit_cands[j] = unit_cands[k]}) = 2}}
    IN  current_mask \ UNION {pm \in valids : current_mask # pm}

\* apply_naked_pairs_all_units(b, r, c, mask) (lines 290-297)
apply_naked_pairs_all_units(b, r, c, mask) ==
    reduce_by_naked_pairs_unit(
        reduce_by_naked_pairs_unit(
            reduce_by_naked_pairs_unit(mask, unit_candidates_row(b, r)),
            unit_candidates_col(b, c)),
        unit_candidates_box(b, r \div 3, c \div 3))

\* The loop of find_single_after_reductions (lines 213-219) from `mask`: the
\* mask it ends with.
RECURSIVE reduce_until_stable(_, _, _, _)
reduce_until_stable(b, r, c, mask) ==
    CHOOSE end \in {IF m = mask \/ Cardinality(m) = 1 THEN m
                    ELSE reduce_until_stable(b, r, c, m) :
                    m \in {apply_naked_pairs_all_units(b, r, c,
                              apply_locked_pointing_claiming(b, r, c, mask))}} : TRUE

\* The mask find_single_after_reductions ends with for the cell i (lines
\* 210-219); a cell of one candidate or none is skipped (line 211).
reduced_mask(b, i) ==
    IF Cardinality(candidates(b, i \div 9, i % 9)) <= 1 THEN {}
    ELSE reduce_until_stable(b, i \div 9, i % 9,
             mask_from_candidates(candidates(b, i \div 9, i % 9)))

\* find_single_after_reductions(b) (lines 207-226): the first empty cell,
\* row-major, of two candidates or more whose mask the loop leaves with one
\* bit.
find_single_after_reductions(b) ==
    CHOOSE some \in {IF hits = {} THEN None
                     ELSE Some(SetMin(hits) \div 9, SetMin(hits) % 9,
                               SetMin(reduced_mask(b, SetMin(hits))),
                               "Single after reductions (pointing/claiming, pairs)") :
                     hits \in {{i \in empty_cells(b) : Cardinality(reduced_mask(b, i)) = 1}}} : TRUE

\* apply_place(b, r, c, v) (line 174)
apply_place(b, r, c, v) == with_value(b, r, c, v)

----------------------------------------------------------------------------
(* solver.rs *)

\* SolveMode
Modes == {"LogicalOnly", "SearchOnly", "Hybrid"}

\* The strategies in the order solve_logically tries them (lines 36-41).
\* The strategies with pointing_pair_triple tried before naked_pair.
strategy_pointing_first(n, grid) ==
    CASE n = 1 -> naked_single(grid)
      [] n = 2 -> hidden_single(grid)
      [] n = 3 -> LET p == pointing_pair_triple(grid)
                  IN  [res |-> "ok", applied |-> p.applied, grid |-> p.grid]
      [] n = 4 -> naked_pair(grid)
      [] n = 5 -> box_line_reduction(grid)
      [] n = 6 -> x_wing(grid)

strategy(n, grid) ==
    CASE n = 1 -> naked_single(grid)
      [] n = 2 -> hidden_single(grid)
      [] n = 3 -> naked_pair(grid)
      [] n = 4 -> LET p == pointing_pair_triple(grid)
                  IN  [res |-> "ok", applied |-> p.applied, grid |-> p.grid]
      [] n = 5 -> box_line_reduction(grid)
      [] n = 6 -> x_wing(grid)

\* The phase solve enters after infer_all_candidates (the match of line 20).
first_phase(m) == IF m = "SearchOnly" THEN "search" ELSE "logical"

\* What solve does once solve_logically has returned Ok, where every mode
\* falls back to the search.
after_logical_any_mode(m, grid) == IF ~is_solved(grid) THEN "search" ELSE "done"

\* What solve does once solve_logically has returned Ok (lines 21, 24-26):
\* Hybrid calls solve_search when the grid is not solved.
after_logical(m, grid) ==
    IF m = "Hybrid" /\ ~is_solved(grid) THEN "search" ELSE "done"

\* The start of search with the scan taking the last of the cells with the
\* fewest candidates.
mrv_last_found(grid) ==
    LET empties == {i \in Cells : grid.cells[i] = 0}
        low == {i \in empties : bitcount(grid.cands[i]) <= 1}
        least == SetMin({bitcount(grid.cands[i]) : i \in empties})
        fewest == {i \in empties : bitcount(grid.cands[i]) = least}
    IN  IF is_solved(grid) THEN [kind |-> "solved", i |-> 0]
        ELSE IF low # {}
             THEN IF grid.cands[SetMin(low)] = {} THEN [kind |-> "dead", i |-> SetMin(low)]
                  ELSE [kind |-> "cell", i |-> SetMin(low)]
        ELSE [kind |-> "cell", i |-> CHOOSE i \in fewest : \A j \in fewest : j <= i]

\* The start of search (lines 51-62): "solved" for Ok(true), "dead" for
\* Ok(false), else the cell to branch on.  The scan over the cells stops at
\* the first empty cell with no candidate (Ok(false)) or with one (break),
\* whichever comes first; otherwise the first cell with the fewest
\* candidates is taken.
mrv(grid) ==
    LET empties == {i \in Cells : grid.cells[i] = 0}
        low == {i \in empties : bitcount(grid.cands[i]) <= 1}
        least == SetMin({bitcount(grid.cands[i]) : i \in empties})
    IN  IF is_solved(grid) THEN [kind |-> "solved", i |-> 0]
        ELSE IF low # {}
             THEN IF grid.cands[SetMin(low)] = {} THEN [kind |-> "dead", i |-> SetMin(low)]
                  ELSE [kind |-> "cell", i |-> SetMin(low)]
        ELSE [kind |-> "cell", i |-> SetMin({i \in empties : bitcount(grid.cands[i]) = least})]

\* What solve_search returns for the value of `solved` (line 78).
search_result(solved) == IF solved THEN "Ok" ELSE "Ok"

\* An activation of search: its grid, the cell it branches on, the digits
\* of candmask not tried yet, and where it stands ("call": entered, "loop":
\* in the loop over the digits, "true"/"false": returning that value).
Frame(grid) == [grid |-> grid, i |-> 0, todo |-> {}, st |-> "call"]

----------------------------------------------------------------------------
(* Inputs *)

Dots(n) == [i \in 1..n |-> "."]

\* The puzzle of tests/basic.rs and of the spec's concrete scenario.
EasyPuzzle ==
    <<"5", "3", ".", ".", "7", ".", ".", ".", ".">> \o
    <<"6", ".", ".", "1", "9", "5", ".", ".", ".">> \o
    <<".", "9", "8", ".", ".", ".", ".", "6", ".">> \o
    <<"8", ".", ".", ".", "6", ".", ".", ".", "3">> \o
    <<"4", ".", ".", "8", ".", "3", ".", ".", "1">> \o
    <<"7", ".", ".", ".", "2", ".", ".", ".", "6">> \o
    <<".", "6", ".", ".", ".", ".", "2", "8", ".">> \o
    <<".", ".", ".", "4", "1", "9", ".", ".", "5">> \o
    <<".", ".", ".", ".", "8", ".", ".", "7", "9">>

\* The same puzzle with a line feed after each row but the last, as
\* easy_puzzle() of tests/core_tests.rs writes it.
EasyPuzzleRows ==
    [i \in 1..89 |-> IF i % 10 = 0 THEN "\n" ELSE EasyPuzzle[i - (i \div 10)]]

\* The same puzzle with the blanks of every other row written '0'.
EasyPuzzleZeros ==
    [i \in 1..81 |->
        IF EasyPuzzle[i] = "." /\ ((i - 1) \div 9) % 2 = 1 THEN "0" ELSE EasyPuzzle[i]]

\* Row 0 holds 1..8, so that its last cell has the single candidate 9.
RowFull == <<"1", "2", "3", "4", "5", "6", "7", "8", ".">> \o Dots(72)

\* The compact text of 81 cell values, 0 for a blank.
TextOf(values) == [i \in 1..81 |-> IF values[i] = 0 THEN "." ELSE DigitChars[values[i]]]

\* A puzzle of ten givens with several solutions: no cell has a single
\* candidate, a hidden single and pointing eliminations apply, and the
\* search has to backtrack.
SparsePuzzle == TextOf(
    <<0, 0, 0, 0, 0, 8, 0, 0, 0>> \o
    <<0, 0, 0, 0, 0, 0, 0, 0, 8>> \o
    <<0, 0, 0, 0, 0, 0, 0, 0, 7>> \o
    <<0, 0, 0, 0, 0, 0, 0, 2, 0>> \o
    <<0, 0, 0, 0, 0, 0, 0, 9, 0>> \o
    <<7, 0, 0, 0, 0, 0, 0, 0, 0>> \o
    <<0, 0, 0, 0, 0, 0, 2, 0, 0>> \o
    <<2, 0, 0, 0, 0, 0, 6, 0, 0>> \o
    <<0, 4, 0, 0, 0, 0, 0, 0, 0>>)

\* A puzzle without solution that from_compact accepts: 8 and 9 are missing
\* in row 0, and both open cells of the row see an 8.
DeadEndPuzzle == TextOf(
    <<1, 2, 3, 4, 5, 6, 7, 0, 0>> \o
    <<0, 0, 0, 0, 0, 0, 0, 0, 0>> \o
    <<0, 0, 0, 0, 0, 0, 0, 0, 0>> \o
    <<0, 0, 0, 0, 0, 0, 0, 8, 0>> \o
    <<0, 0, 0, 0, 0, 0, 0, 0, 0>> \o
    <<0, 0, 0, 0, 0, 0, 0, 0, 0>> \o
    <<0, 0, 0, 0, 0, 0, 0, 0, 8>> \o
    <<0, 0, 0, 0, 0, 0, 0, 0, 0>> \o
    <<0, 0, 0, 0, 0, 0, 0, 0, 0>>)

\* The solution of EasyPuzzle, as a puzzle with no blank.
EasySolved == TextOf(
    <<5, 3, 4, 6, 7, 8, 9, 1, 2>> \o
    <<6, 7, 2, 1, 9, 5, 3, 4, 8>> \o
    <<1, 9, 8, 3, 4, 2, 5, 6, 7>> \o
    <<8, 5, 9, 7, 6, 1, 4, 2, 3>> \o
    <<4, 2, 6, 8, 5, 3, 7, 9, 1>> \o
    <<7, 1, 3, 9, 2, 4, 8, 5, 6>> \o
    <<9, 6, 1, 5, 3, 7, 2, 8, 4>> \o
    <<2, 8, 7, 4, 1, 9, 6, 3, 5>> \o
    <<3, 4, 5, 2, 8, 6, 1, 7, 9>>)

\* The grid a caller holds after grid.set(Pos{r:1,c:8}, 9) failed with a
\* contradiction on the grid of RowFull: cell (0,8) is empty with no
\* candidate left.
StarvedGrid == place_idx(from_compact(RowFull).grid, idx_of(1, 8), 9).grid

\* A puzzle without solution that infer_all_candidates accepts: the three
\* open cells of row 0 have the candidates 7 and 8 each, so that naked_pair
\* leaves one of them without candidate.
PairStarvedPuzzle ==
    <<"1", "2", "3", "4", "5", "6", ".", ".", ".">> \o Dots(6) \o <<"9">> \o Dots(65)

\* The grids Solver::solve is called on.
SolveStarts ==
    {from_compact(s).grid :
        s \in {EasyPuzzle, SparsePuzzle, DeadEndPuzzle, EasySolved, PairStarvedPuzzle}}
    \cup {StarvedGrid}

\* A puzzle of 26 givens with exactly one solution, on whose inferred
\* masks each of the elimination strategies finds something to remove.
UniquePuzzle == TextOf(
    <<0, 7, 0, 5, 0, 3, 0, 4, 0>> \o
    <<3, 0, 6, 8, 0, 1, 7, 0, 0>> \o
    <<1, 0, 0, 4, 0, 6, 2, 0, 0>> \o
    <<0, 8, 0, 0, 0, 0, 4, 3, 0>> \o
    <<0, 0, 0, 0, 0, 0, 0, 0, 0>> \o
    <<0, 5, 7, 0, 0, 0, 0, 0, 2>> \o
    <<5, 2, 0, 0, 0, 0, 0, 0, 0>> \o
    <<0, 0, 8, 0, 0, 4, 0, 0, 0>> \o
    <<9, 0, 0, 0, 0, 8, 0, 0, 5>>)

\* A puzzle on which naked_pair finds no pair that removes a candidate in a
\* row or a column, and one in box 1 and one in box 7.
TwoBoxPuzzle == TextOf(
    <<5, 0, 4, 6, 7, 0, 9, 1, 2>> \o
    <<6, 0, 0, 0, 0, 5, 0, 4, 0>> \o
    <<1, 9, 8, 0, 0, 2, 5, 6, 7>> \o
    <<8, 0, 9, 7, 6, 0, 4, 2, 3>> \o
    <<4, 2, 6, 0, 5, 3, 7, 0, 1>> \o
    <<7, 0, 3, 9, 2, 0, 0, 0, 6>> \o
    <<0, 6, 0, 5, 0, 7, 2, 8, 4>> \o
    <<2, 8, 7, 0, 0, 9, 0, 3, 5>> \o
    <<3, 0, 5, 2, 8, 6, 1, 7, 0>>)

\* A puzzle without a hidden single in a row; column 0 has one for digit 2.
ColumnPuzzle == TextOf(
    <<5, 0, 0, 0, 0, 8, 9, 1, 0>> \o
    <<6, 7, 0, 0, 0, 0, 3, 4, 8>> \o
    <<1, 0, 0, 0, 0, 0, 5, 0, 7>> \o
    <<0, 0, 0, 0, 6, 0, 0, 2, 0>> \o
    <<4, 2, 6, 0, 0, 3, 7, 0, 0>> \o
    <<7, 1, 0, 0, 2, 4, 0, 0, 0>> \o
    <<9, 0, 1, 5, 0, 0, 0, 0, 0>> \o
    <<0, 0, 0, 4, 1, 0, 0, 0, 0>> \o
    <<3, 4, 5, 2, 0, 6, 0, 0, 0>>)

\* A puzzle without a hidden single in a row or a column; box 0 has one
\* for digit 1.
BoxPuzzle == TextOf(
    <<0, 8, 0, 0, 0, 0, 0, 0, 0>> \o
    <<2, 3, 4, 0, 0, 0, 0, 0, 0>> \o
    <<5, 6, 7, 0, 0, 0, 0, 0, 0>> \o
    <<0, 0, 1, 0, 0, 0, 0, 0, 0>> \o
    <<0, 0, 0, 0, 0, 0, 0, 0, 0>> \o
    <<0, 0, 0, 0, 0, 0, 0, 0, 0>> \o
    <<0, 0, 0, 0, 0, 0, 0, 0, 0>> \o
    <<0, 0, 0, 0, 0, 0, 0, 0, 0>> \o
    <<0, 0, 0, 0, 0, 0, 0, 0, 0>>)

\* Rows 0 and 4 hold eight digits each and leave column 8 open: r0c8 and
\* r4c8 both have 9 as their only candidate.
TwoRows ==
    TextOf([i \in 1..81 |->
              IF i <= 8 THEN i
              ELSE IF i \in 37..43 THEN i - 35
              ELSE IF i = 44 THEN 1
              ELSE 0])

\* The puzzles the strategies are applied to.  TwoRows has no solution and
\* BoxPuzzle has many; each of the others has exactly one.
StrategyTexts == {EasyPuzzle, UniquePuzzle, TwoBoxPuzzle, ColumnPuzzle, BoxPuzzle, TwoRows}

\* The names of the strategies, in the order of solve_logically.
StrategyNames ==
    <<"naked_single", "hidden_single", "naked_pair",
      "pointing_pair_triple", "box_line_reduction", "x_wing">>

\* Positions (1-based) and chars of the edits that derive inputs.
EditPos == {1, 9, 18, 81}
EditChars == {".", "0", "_", "5", "9", "x", " ", "U+00B7"}

Replace(s, p, ch) == [s EXCEPT ![p] = ch]
Insert(s, p, ch) == SubSeq(s, 1, p - 1) \o <<ch>> \o SubSeq(s, p, Len(s))
Remove(s, p) == SubSeq(s, 1, p - 1) \o SubSeq(s, p + 1, Len(s))

EditOnce(s) ==
    {Replace(s, p, ch) : p \in {p \in EditPos : p <= Len(s)}, ch \in EditChars}
    \cup {Insert(s, p, ch) : p \in {p \in EditPos : p <= Len(s)}, ch \in EditChars}
    \cup {Remove(s, p) : p \in {p \in EditPos : p <= Len(s)}}

RECURSIVE Edited(_, _)
Edited(S, k) == IF k = 0 THEN S ELSE Edited(S \cup UNION {EditOnce(s) : s \in S}, k - 1)

BaseTexts == {EasyPuzzle, EasyPuzzleRows, EasyPuzzleZeros, RowFull, Dots(81), SubSeq(EasyPuzzle, 1, 80)}

\* The texts handed to the parsers.
Inputs == Edited(BaseTexts, MaxEdits)

\* The puzzles a session of grid operations starts from; Dots(81) gives
\* Grid::empty().
StartTexts == {Dots(81), RowFull, EasyPuzzle}

\* The puzzles the sessions of Ok calls start from.
ReachTexts == StartTexts \cup {TwoRows}

\* The cells and digits the grid operations are called with.
TestPos == {<<0, 0>>, <<0, 8>>, <<1, 0>>, <<1, 7>>, <<1, 8>>, <<4, 4>>, <<8, 8>>}
TestDigits == {0, 1, 5, 9, 10}

NoOp == [op |-> "init", idx |-> 0, d |-> 0, res |-> "ok"]

\* Nothing invoked yet by solve: the state of the strategy phase ("none",
\* "running", "Ok", "Err"), of the search ("none", "running", "returned"),
\* the number of strategies applied, and whether the grid was not solved
\* when the strategy phase returned Ok.
NoHist == [logical |-> "none", search |-> "none", applied |-> 0, stalled |-> FALSE]

\* No solver in use.
SolverIdle ==
    /\ mode = "none"
    /\ pc = "idle"
    /\ at = 0
    /\ stack = <<>>
    /\ ret = "none"
    /\ hist = NoHist
    /\ prev = <<>>

\* generate_puzzle not called: no board yet, positions not shuffled.
GenIdle ==
    [pc |-> "idle", b |-> board_empty, shuffle |-> "none", todo |-> {}, clues |-> 0,
     target |-> 0, count |-> -1, restores |-> 0]

\* max_steps = None
NoBudget == -1

\* solve_steps not called.
CoreIdle ==
    [solver |-> "none", pc |-> "idle", input |-> board_empty, max |-> NoBudget,
     b |-> board_empty, steps |-> <<>>, idx |-> 0, stack |-> <<>>, ret |-> FALSE]

\* solve_to_completion not called.
BruteIdle ==
    [pc |-> "idle", input |-> board_empty, b |-> board_empty, empties |-> <<>>,
     next |-> <<>>, i |-> 0, result |-> <<>>]

\* No function called.
CallIdle == [fn |-> "none", arg |-> <<>>, out |-> <<>>]

EngineIdle ==
    SolverIdle /\ gen = GenIdle /\ core = CoreIdle /\ brute = BruteIdle /\ call = CallIdle

----------------------------------------------------------------------------
(* Spec: a session of Grid operations on a parsed puzzle *)

Init ==
    /\ \E s \in StartTexts :
          /\ from_compact(s).res = "ok"
          /\ g = from_compact(s).grid
          /\ text = s
    /\ pre = g
    /\ last = NoOp
    /\ ops = 0
    /\ parsed = <<>>
    /\ board = <<>>
    /\ out = <<>>
    /\ EngineIdle

\* grid.set(Pos{r, c}, d)
Set(r, c, d) ==
    /\ ops < MaxOps
    /\ LET p == place_idx(g, idx_of(r, c), d) IN
          /\ g' = p.grid
          /\ last' = [op |-> "set", idx |-> idx_of(r, c), d |-> d, res |-> p.res]
    /\ pre' = g
    /\ ops' = ops + 1
    /\ UNCHANGED <<text, parsed, board, out>>
    /\ UNCHANGED engineVars

\* grid.infer_all_candidates()
InferAll ==
    /\ ops < MaxOps
    /\ LET p == infer_all_candidates(g) IN
          /\ g' = p.grid
          /\ last' = [op |-> "infer", idx |-> 0, d |-> 0, res |-> p.res]
    /\ pre' = g
    /\ ops' = ops + 1
    /\ UNCHANGED <<text, parsed, board, out>>
    /\ UNCHANGED engineVars

\* strategies::pointing_pair_triple(grid, logger)
PointingPairTriple ==
    /\ ops < MaxOps
    /\ LET p == pointing_pair_triple(g) IN
          /\ g' = p.grid
          /\ last' = [op |-> "pointing_pair_triple", idx |-> 0, d |-> 0,
                      res |-> IF p.applied THEN "applied" ELSE "not applied"]
    /\ pre' = g
    /\ ops' = ops + 1
    /\ UNCHANGED <<text, parsed, board, out>>
    /\ UNCHANGED engineVars

Next ==
    \/ \E p \in TestPos, d \in TestDigits : Set(p[1], p[2], d)
    \/ InferAll
    \/ PointingPairTriple

Spec == Init /\ [][Next]_vars

----------------------------------------------------------------------------
(* SpecParse: one input text handed to the parsers *)

InitParse ==
    /\ text \in Inputs
    /\ g = empty
    /\ pre = empty
    /\ last = NoOp
    /\ ops = 0
    /\ parsed = <<>>
    /\ board = <<>>
    /\ out = <<>>
    /\ EngineIdle

\* Grid::from_compact(text)
FromCompact ==
    /\ last.op = "init"
    /\ LET p == from_compact(text) IN
          /\ parsed' = IF p.res = "ok" THEN <<p.grid>> ELSE <<>>
          /\ last' = [op |-> "from_compact", idx |-> 0, d |-> 0, res |-> p.res]
    /\ UNCHANGED <<g, pre, ops, text, board, out>>
    /\ UNCHANGED engineVars

\* Board::parse(text)
BoardParse ==
    /\ last.op = "init"
    /\ LET p == parse(text) IN
          /\ board' = p.board
          /\ last' = [op |-> "parse", idx |-> 0, d |-> 0, res |-> p.res]
    /\ UNCHANGED <<g, pre, ops, text, parsed, out>>
    /\ UNCHANGED engineVars

\* g.to_compact() on the grid from_compact returned
ToCompact ==
    /\ last.op = "from_compact"
    /\ parsed # <<>>
    /\ out' = to_compact(parsed[1])
    /\ last' = [op |-> "to_compact", idx |-> 0, d |-> 0, res |-> "ok"]
    /\ UNCHANGED <<g, pre, ops, text, parsed, board>>
    /\ UNCHANGED engineVars

NextParse == FromCompact \/ BoardParse \/ ToCompact

SpecParse == InitParse /\ [][NextParse]_vars

----------------------------------------------------------------------------
(* SpecSolve: Solver::solve, step by step, on one grid.  A caller that has *)
(* solved a puzzle in SearchOnly mode may solve the same puzzle again in   *)
(* Hybrid mode.                                                            *)

InitSolve ==
    /\ g \in SolveStarts
    /\ pre = g
    /\ text = to_compact(g)
    /\ last = NoOp
    /\ ops = 0
    /\ parsed = <<>>
    /\ board = <<>>
    /\ out = <<>>
    /\ mode \in Modes
    /\ pc = "idle"
    /\ at = 0
    /\ stack = <<>>
    /\ ret = "none"
    /\ hist = NoHist
    /\ prev = <<>>
    /\ gen = GenIdle
    /\ core = CoreIdle
    /\ brute = BruteIdle
    /\ call = CallIdle

\* solve is entered: infer_all_candidates()? (line 17), then the match on
\* the mode starts the first phase.
SolveBegin ==
    /\ pc = "idle"
    /\ mode \in Modes
    /\ LET inf == infer_all_candidates(g) IN
          /\ g' = inf.grid
          /\ IF inf.res # "ok"
             THEN /\ ret' = inf.res
                  /\ pc' = "done"
                  /\ UNCHANGED <<at, stack, hist>>
             ELSE /\ ret' = ret
                  /\ pc' = first_phase(mode)
                  /\ IF first_phase(mode) = "search"
                     THEN /\ stack' = <<Frame(inf.grid)>>
                          /\ hist' = [hist EXCEPT !.search = "running"]
                          /\ at' = at
                     ELSE /\ stack' = stack
                          /\ hist' = [hist EXCEPT !.logical = "running"]
                          /\ at' = 1
    /\ UNCHANGED <<pre, mode, prev>>
    /\ UNCHANGED solveFrame

\* The strategy solve_logically tries next reports progress: `continue`
\* starts the next iteration with the first strategy.
StrategyApplies ==
    /\ pc = "logical"
    /\ at \in 1..6
    /\ \E r \in {strategy(at, g)} :
          /\ r.res = "ok" /\ r.applied
          /\ g' = r.grid
    /\ at' = 1
    /\ hist' = [hist EXCEPT !.applied = @ + 1]
    /\ UNCHANGED <<pre, mode, pc, stack, ret, prev>>
    /\ UNCHANGED solveFrame

\* The strategy solve_logically tries next reports no progress: the next
\* strategy of the iteration is tried.
StrategyPasses ==
    /\ pc = "logical"
    /\ at \in 1..6
    /\ \E r \in {strategy(at, g)} :
          /\ r.res = "ok" /\ ~r.applied
          /\ g' = r.grid
    /\ at' = at + 1
    /\ UNCHANGED <<pre, mode, pc, stack, ret, hist, prev>>
    /\ UNCHANGED solveFrame

\* The placement of the strategy solve_logically tries next fails: the
\* error leaves solve_logically and solve through `?`.
StrategyFails ==
    /\ pc = "logical"
    /\ at \in 1..6
    /\ \E r \in {strategy(at, g)} :
          /\ r.res # "ok"
          /\ g' = r.grid
          /\ ret' = r.res
    /\ pc' = "done"
    /\ at' = 0
    /\ hist' = [hist EXCEPT !.logical = "Err"]
    /\ UNCHANGED <<pre, mode, stack, prev>>
    /\ UNCHANGED solveFrame

\* No strategy of the iteration reported progress: the grid is as it was
\* at the start of the iteration, `before == after` holds (line 43) and
\* solve_logically returns Ok; solve returns or calls solve_search.
LogicalReturn ==
    /\ pc = "logical"
    /\ at = 7
    /\ at' = 0
    /\ hist' = [hist EXCEPT !.logical = "Ok",
                            !.stalled = ~is_solved(g),
                            !.search = IF after_logical(mode, g) = "search"
                                       THEN "running" ELSE @]
    /\ IF after_logical(mode, g) = "search"
       THEN /\ pc' = "search"
            /\ stack' = <<Frame(g)>>
            /\ ret' = ret
       ELSE /\ pc' = "done"
            /\ stack' = stack
            /\ ret' = "Ok"
    /\ UNCHANGED <<g, pre, mode, prev>>
    /\ UNCHANGED solveFrame

Top == stack[Len(stack)]

SetTop(f) == [stack EXCEPT ![Len(stack)] = f]

\* search is entered (lines 51-64): it returns at once on a solved grid or
\* on an empty cell without candidate, else it fixes the cell to branch on
\* and its candmask.
SearchCall ==
    /\ pc = "search"
    /\ Top.st = "call"
    /\ LET m == mrv(Top.grid) IN
          stack' = SetTop(
             IF m.kind = "solved" THEN [Top EXCEPT !.st = "true"]
             ELSE IF m.kind = "dead" THEN [Top EXCEPT !.st = "false"]
             ELSE [Top EXCEPT !.st = "loop", !.i = m.i, !.todo = Top.grid.cands[m.i]])
    /\ UNCHANGED <<g, pre, mode, pc, at, ret, hist, prev>>
    /\ UNCHANGED solveFrame

\* An iteration of the loop over the digits that sets the digit on the
\* grid of the node itself and hands a copy of it to the recursive call.
SearchTry_in_place ==
    /\ pc = "search"
    /\ Top.st = "loop"
    /\ Top.todo # {}
    /\ LET d == SetMin(Top.todo)
           child == place_idx(Top.grid, Top.i, d)
           rest == SetTop([Top EXCEPT !.todo = @ \ {d}, !.grid = child.grid])
       IN  stack' = IF child.res # "ok" THEN rest ELSE Append(rest, Frame(child.grid))
    /\ UNCHANGED <<g, pre, mode, pc, at, ret, hist, prev>>
    /\ UNCHANGED solveFrame

\* An iteration of the loop over the digits (lines 65-72): the next digit
\* of candmask is set on a clone; a failed set is skipped (`continue`),
\* otherwise search is called on the clone.
SearchTry ==
    /\ pc = "search"
    /\ Top.st = "loop"
    /\ Top.todo # {}
    /\ LET d == SetMin(Top.todo)
           child == place_idx(Top.grid, Top.i, d)
           rest == SetTop([Top EXCEPT !.todo = @ \ {d}])
       IN  stack' = IF child.res # "ok" THEN rest ELSE Append(rest, Frame(child.grid))
    /\ UNCHANGED <<g, pre, mode, pc, at, ret, hist, prev>>
    /\ UNCHANGED solveFrame

\* The loop over the digits is exhausted: search returns Ok(false)
\* (lines 74-75).
SearchBacktrack ==
    /\ pc = "search"
    /\ Top.st = "loop"
    /\ Top.todo = {}
    /\ stack' = SetTop([Top EXCEPT !.st = "false"])
    /\ UNCHANGED <<g, pre, mode, pc, at, ret, hist, prev>>
    /\ UNCHANGED solveFrame

\* A recursive call of search returns, its caller giving up on the first
\* child that returned false.
SearchReturn_gives_up ==
    /\ pc = "search"
    /\ Len(stack) > 1
    /\ Top.st \in {"true", "false"}
    /\ LET caller == stack[Len(stack) - 1]
           below == SubSeq(stack, 1, Len(stack) - 2)
       IN  stack' = IF Top.st = "true"
                    THEN Append(below, [caller EXCEPT !.grid = Top.grid, !.st = "true"])
                    ELSE Append(below, [caller EXCEPT !.st = "false"])
    /\ UNCHANGED <<g, pre, mode, pc, at, ret, hist, prev>>
    /\ UNCHANGED solveFrame

\* A recursive call of search returns to line 71: on true the caller takes
\* the child's grid and returns true, on false it goes on with its loop.
SearchReturn ==
    /\ pc = "search"
    /\ Len(stack) > 1
    /\ Top.st \in {"true", "false"}
    /\ LET caller == stack[Len(stack) - 1]
           below == SubSeq(stack, 1, Len(stack) - 2)
       IN  stack' = IF Top.st = "true"
                    THEN Append(below, [caller EXCEPT !.grid = Top.grid, !.st = "true"])
                    ELSE Append(below, caller)
    /\ UNCHANGED <<g, pre, mode, pc, at, ret, hist, prev>>
    /\ UNCHANGED solveFrame

\* The outermost search returns to solve_search (lines 77-78), which
\* returns to solve, which returns its result (lines 22, 25-26).
SearchEnd ==
    /\ pc = "search"
    /\ Len(stack) = 1
    /\ Top.st \in {"true", "false"}
    /\ g' = Top.grid
    /\ ret' = search_result(Top.st = "true")
    /\ pc' = "done"
    /\ stack' = <<>>
    /\ hist' = [hist EXCEPT !.search = "returned"]
    /\ UNCHANGED <<pre, mode, at, prev>>
    /\ UNCHANGED solveFrame

\* After a SearchOnly solve the caller solves the puzzle it started from
\* again, with a Solver in Hybrid mode.
SolveAgain ==
    /\ pc = "done"
    /\ mode = "SearchOnly"
    /\ prev = <<>>
    /\ prev' = <<[mode |-> mode, ret |-> ret, grid |-> g]>>
    /\ mode' = "Hybrid"
    /\ g' = pre
    /\ pc' = "idle"
    /\ stack' = <<>>
    /\ ret' = "none"
    /\ hist' = NoHist
    /\ UNCHANGED <<pre, at>>
    /\ UNCHANGED solveFrame

NextSolve ==
    \/ SolveBegin
    \/ StrategyApplies
    \/ StrategyPasses
    \/ StrategyFails
    \/ LogicalReturn
    \/ SearchCall
    \/ SearchTry
    \/ SearchBacktrack
    \/ SearchReturn
    \/ SearchEnd
    \/ SolveAgain

SpecSolve == InitSolve /\ [][NextSolve]_vars

\* A step of solve_search.
SearchStep == SearchCall \/ SearchTry \/ SearchBacktrack \/ SearchReturn \/ SearchEnd

\* search is a sequential program: a call that can take a step takes it.
SpecSearchLive == SpecSolve /\ WF_vars(SearchStep)

----------------------------------------------------------------------------
(* SpecStrategies: the strategies of utils.rs called, in any order, on the *)
(* grid of a parsed puzzle.                                                *)

InitStrategies ==
    /\ \E s \in StrategyTexts :
          /\ from_compact(s).res = "ok"
          /\ g = from_compact(s).grid
          /\ text = s
    /\ pre = g
    /\ last = NoOp
    /\ ops = 0
    /\ parsed = <<>>
    /\ board = <<>>
    /\ out = <<>>
    /\ EngineIdle

\* strategies::<name>(grid, logger) for the n-th strategy.
CallStrategy(n) ==
    /\ ops < MaxOps
    /\ \E r \in {strategy(n, g)} :
          /\ g' = r.grid
          /\ last' = [op |-> StrategyNames[n], idx |-> 0, d |-> 0,
                      res |-> IF r.res # "ok" THEN r.res
                              ELSE IF r.applied THEN "applied" ELSE "not applied"]
    /\ pre' = g
    /\ ops' = ops + 1
    /\ UNCHANGED <<text, parsed, board, out>>
    /\ UNCHANGED engineVars

NextStrategies == \E n \in 1..6 : CallStrategy(n)

SpecStrategies == InitStrategies /\ [][NextStrategies]_vars

----------------------------------------------------------------------------
(* SpecGen: PuzzleGenerator::generate_puzzle, one loop iteration a step.   *)
(* The rng is a source of arbitrary choices: the full grid it yields is    *)
(* drawn from FullGrids, and the shuffled `positions` are decided as the   *)
(* loop consumes them.                                                     *)

\* The grids generate_full_grid returns here: fill_grid ends with a fully
\* filled board without conflict, and line 22 marks every cell fixed.
FullGrids == {from_rows([i \in 0..80 |-> board_value(EasySolved[i + 1])])}

\* A target no board with a single solution meets.
LowTarget == 16

\* The cells (0,3), (0,4), (3,3), (3,4) hold 6 7 / 7 6 in the grid of
\* EasySolved, so that clearing all four leaves two solutions.
GenPool == {0, 3, 4, 30, 31, 40}

\* The outcomes of positions.shuffle (line 30) considered: the cells of
\* GenPool first, in any order, or every cell from the last one down.
Shuffles == {"pool first", "descending"}

\* The positions that can come next in the shuffled order, given the ones
\* not visited yet.
shuffle_next(shuffle, todo) ==
    IF shuffle = "pool first" /\ todo \cap GenPool # {} THEN todo \cap GenPool
    ELSE {i \in todo : \A j \in todo : j <= i}

\* The calls considered, as <<target_clues, shuffle>>: up to MaxBlanks
\* removals, none, and a target above 81, under every shuffle; and
\* LowTarget, for which the loop runs until the positions are used up.
GenCalls == (((81 - MaxBlanks)..82) \X Shuffles) \cup {<<LowTarget, "descending">>}

InitGen ==
    /\ g = empty
    /\ pre = empty
    /\ last = NoOp
    /\ ops = 0
    /\ text = <<>>
    /\ parsed = <<>>
    /\ board = <<>>
    /\ out = <<>>
    /\ EngineIdle

\* generate_puzzle(target) up to the loop (lines 27-31).
GenStart(target, shuffle) ==
    /\ gen.pc = "idle"
    /\ \E full \in FullGrids :
          gen' = [pc |-> "loop", b |-> mark_fixed(full), shuffle |-> shuffle, todo |-> Cells,
                  clues |-> 81, target |-> target, count |-> -1, restores |-> 0]
    /\ UNCHANGED <<g, pre, last, ops, text, parsed, board, out, solveVars, core, brute, call>>

\* One iteration of the loop (lines 32-49), for the next position idx.
GenIterate(idx) ==
    /\ gen.pc = "loop"
    /\ gen.todo # {}
    /\ ~(gen.clues <= gen.target)
    /\ idx \in shuffle_next(gen.shuffle, gen.todo)
    /\ \E it \in {remove_clue(gen.b, gen.clues, idx)} :
          gen' = [gen EXCEPT !.b = it.b, !.clues = it.clues, !.count = it.count,
                             !.todo = @ \ {idx},
                             !.restores = IF it.count \in {-1, 1} THEN @ ELSE @ + 1]
    /\ UNCHANGED <<g, pre, last, ops, text, parsed, board, out, solveVars, core, brute, call>>

\* The loop ends, by `break` or with the positions used up; the fixed flags
\* are finalized and the board is returned (lines 50-52).
GenReturn ==
    /\ gen.pc = "loop"
    /\ (gen.todo = {} \/ gen.clues <= gen.target)
    /\ gen' = [gen EXCEPT !.pc = "done", !.b = mark_fixed(gen.b)]
    /\ UNCHANGED <<g, pre, last, ops, text, parsed, board, out, solveVars, core, brute, call>>

NextGen ==
    \/ \E gc \in GenCalls : GenStart(gc[1], gc[2])
    \/ \E idx \in Cells : GenIterate(idx)
    \/ GenReturn

SpecGen == InitGen /\ [][NextGen]_vars

----------------------------------------------------------------------------
(* The peer relation as the data model states it: the cells sharing the    *)
(* row, the column or the 3x3 box of a cell, the cell itself excluded.     *)

RowOf(i) == i \div 9
ColOf(i) == i % 9
BoxOf(i) == (i \div 27) * 3 + (i % 9) \div 3

UnitPeers(i) ==
    {j \in Cells \ {i} : RowOf(j) = RowOf(i) \/ ColOf(j) = ColOf(i) \/ BoxOf(j) = BoxOf(i)}

\* The digits committed in the peers of cell i.
PeerValues(cells, i) == {cells[j] : j \in UnitPeers(i)} \ {0}

LastSet == last.op = "set"
LastInfer == last.op = "infer"

----------------------------------------------------------------------------
(* Claims about Grid::set, checked under Spec *)

C2_SetEffect ==
    (LastSet /\ last.res = "ok" /\ pre.cells[last.idx] = 0)
    => /\ g.cells[last.idx] = last.d
       /\ g.cands[last.idx] = {}
       /\ Cardinality(UnitPeers(last.idx)) = 20
       /\ \A q \in UnitPeers(last.idx) : g.cands[q] = pre.cands[q] \ {last.d}
       /\ \A i \in Cells \ {last.idx} : g.cells[i] = pre.cells[i]
       /\ \A i \in Cells \ (UnitPeers(last.idx) \cup {last.idx}) : g.cands[i] = pre.cands[i]

\* C2 witness: a set succeeded on an empty cell and took the digit out of
\* the mask of a peer that had it.
C2_Witness ==
    /\ LastSet
    /\ last.res = "ok"
    /\ pre.cells[last.idx] = 0
    /\ \E q \in UnitPeers(last.idx) : last.d \in pre.cands[q] /\ last.d \notin g.cands[q]

\* Some empty peer of cell i would be left without candidates once d is
\* removed from the peers' masks.
PeerStarved(grid, i, d) ==
    \E q \in UnitPeers(i) : grid.cells[q] = 0 /\ grid.cands[q] \ {d} = {}

\* C3: Grid::set(pos, d) on an empty cell with d among its candidates
\* returns a contradiction error exactly when, after d is removed from the
\* peers, some empty peer has an empty mask; the digit then stays committed
\* (no rollback), and set returns Ok only if no empty peer is left without
\* candidates.
C3_SetContradiction ==
    (LastSet /\ pre.cells[last.idx] = 0 /\ last.d \in pre.cands[last.idx])
    => /\ last.res \in {"ok", "contradiction"}
       /\ (last.res = "contradiction") <=> PeerStarved(pre, last.idx, last.d)
       /\ (last.res = "contradiction") <=>
             (\E q \in UnitPeers(last.idx) : g.cells[q] = 0 /\ g.cands[q] = {})
       /\ g.cells[last.idx] = last.d

\* C3 witness: a set on an empty cell with d among its candidates failed
\* with a contradiction and the digit is committed.
C3_Witness ==
    /\ LastSet
    /\ pre.cells[last.idx] = 0
    /\ last.d \in pre.cands[last.idx]
    /\ last.res = "contradiction"
    /\ g.cells[last.idx] = last.d

C5_SetMonotonic ==
    LastSet => \A i \in Cells : g.cands[i] \subseteq pre.cands[i]

\* C5 witness: a set shrank some mask, on a grid where some peer of the
\* cell had already lost the digit.
C5_Witness ==
    /\ LastSet
    /\ \E i \in Cells : g.cands[i] # pre.cands[i]
    /\ \E q \in UnitPeers(last.idx) : pre.cells[q] = 0 /\ last.d \notin pre.cands[q]

----------------------------------------------------------------------------
(* Claims about Grid::infer_all_candidates, checked under Spec *)

\* C6: after Grid::infer_all_candidates, for all 81 cells at once, the mask
\* of an empty cell is {1..9} minus the values committed in its peers and
\* the mask of a filled cell is empty, whatever the masks were before.
C6_InferResult ==
    LastInfer =>
        \A i \in Cells :
            g.cands[i] = IF g.cells[i] # 0 THEN {} ELSE (1..9) \ PeerValues(g.cells, i)

\* C6 witness: infer_all_candidates ran on a grid with digits committed in
\* which some mask had been narrowed by a strategy, and gave that mask back
\* a digit it had lost.
C6_Witness ==
    /\ LastInfer
    /\ \E i \in Cells : pre.cells[i] # 0
    /\ \E i \in Cells : ~(g.cands[i] \subseteq pre.cands[i])

\* C7: Grid::infer_all_candidates returns an error if and only if some
\* empty cell has all nine digits among its peers' committed values, and it
\* never changes a cell value.
C7_InferError ==
    LastInfer =>
        /\ (last.res # "ok") <=>
              (\E i \in Cells : pre.cells[i] = 0 /\ PeerValues(pre.cells, i) = 1..9)
        /\ g.cells = pre.cells

\* C7 witness: infer_all_candidates failed on a grid that has an empty cell
\* whose peers hold all nine digits.
C7_Witness ==
    /\ LastInfer
    /\ last.res = "no candidates"
    /\ \E i \in Cells : pre.cells[i] = 0 /\ PeerValues(pre.cells, i) = 1..9

----------------------------------------------------------------------------
(* Claims about parsing and formatting, checked under SpecParse *)

BlankMarkers == {"0", ".", "_"}
IsDigitChar(ch) == \E d \in 1..9 : DigitChars[d] = ch
Recognized(ch) == IsDigitChar(ch) \/ ch \in BlankMarkers

\* The value a recognized symbol stands for: its digit, or 0 for a blank.
SymbolValue(ch) == IF IsDigitChar(ch) THEN CHOOSE d \in 1..9 : DigitChars[d] = ch ELSE 0

\* The recognized symbols of a text, in order.
Symbols(t) == SelectSeq(t, Recognized)

\* A text of exactly 81 symbols, all of them digits or blank markers of B.
Is81Over(t, B) == Len(t) = 81 /\ \A i \in 1..81 : IsDigitChar(t[i]) \/ t[i] \in B

\* The cell values an 81-symbol text denotes, row-major.
ValuesOf(t) == [i \in Cells |-> SymbolValue(t[i + 1])]

\* No unit holds the same nonzero digit twice.
NoDuplicate(cells) ==
    \A i \in Cells : cells[i] # 0 => cells[i] \notin PeerValues(cells, i)

\* No empty cell has all nine digits among its peers.
NoStarvedBlank(cells) ==
    \A i \in Cells : cells[i] = 0 => PeerValues(cells, i) # 1..9

LastFromCompact == last.op = "from_compact"
LastParse == last.op = "parse"
LastToCompact == last.op = "to_compact"

\* C8: parsing rejects malformed input: Grid::from_compact returns an error
\* for every input whose length differs from 81 or that contains a symbol
\* that is neither a digit 1-9 nor a recognized blank marker, and
\* Board::parse returns an error whenever the number of recognized symbols in
\* the text differs from 81; no grid or board is returned in those cases.
C8_RejectsMalformed ==
    /\ (LastFromCompact /\ (Len(text) # 81 \/ \E i \in 1..Len(text) : ~Recognized(text[i])))
          => (last.res # "ok" /\ parsed = <<>>)
    /\ (LastParse /\ Len(Symbols(text)) # 81)
          => (last.res # "ok" /\ board = <<>>)

\* C8 witness: from_compact was given 80 chars, all of them digits or
\* blanks, and returned an error.
C8_Witness ==
    /\ LastFromCompact
    /\ Len(text) = 80
    /\ \A i \in 1..80 : Recognized(text[i])
    /\ \E i \in 1..80 : IsDigitChar(text[i])
    /\ last.res = "compact string must be 81 chars"
    /\ parsed = <<>>

\* The grid from_compact returned holds the values the text denotes.
GridHolds(t) == parsed # <<>> /\ parsed[1].cells = ValuesOf(t)

\* The board Board::parse returned holds the values the text denotes, each
\* nonzero one marked fixed.
BoardHolds(t) ==
    /\ board # <<>>
    /\ \A r \in 0..8, c \in 0..8 :
          /\ board[1].cells[r][c].value = ValuesOf(t)[r * 9 + c]
          /\ board[1].cells[r][c].fixed = (ValuesOf(t)[r * 9 + c] # 0)

\* C9 (as stated): parse accepts each of '0', '.' and '_' as a blank: any
\* 81-symbol input made of digits 1-9 and these blank markers, with no
\* duplicate digit in a unit, parses successfully (with Grid::from_compact
\* and with Board::parse); each digit becomes the committed value of the
\* cell at its row-major position (marked fixed in Board) and each blank
\* becomes an empty cell.
C9_AsStated ==
    (Is81Over(text, BlankMarkers) /\ NoDuplicate(ValuesOf(text)))
    => /\ LastFromCompact => (last.res = "ok" /\ GridHolds(text))
       /\ LastParse => (last.res = "ok" /\ BoardHolds(text))

\* C9 (amended): Board::parse accepts each of '0', '.' and '_' as a blank
\* and parses any 81-symbol input made of digits 1-9 and these markers.
\* Grid::from_compact accepts '0' and '.' as a blank and rejects '_': it
\* parses any 81-symbol input made of digits 1-9, '0' and '.' that has no
\* duplicate digit in a unit and no blank cell whose peers hold all nine
\* digits (a contradiction, which from_compact reports as an error).  Each
\* digit becomes the committed value of the cell at its row-major position
\* (marked fixed in Board) and each blank becomes an empty cell.
C9_ParseAccepts ==
    /\ (LastParse /\ Is81Over(text, BlankMarkers))
          => (last.res = "ok" /\ BoardHolds(text))
    /\ (LastFromCompact /\ Is81Over(text, {"0", "."})
          /\ NoDuplicate(ValuesOf(text)) /\ NoStarvedBlank(ValuesOf(text)))
          => (last.res = "ok" /\ GridHolds(text))
    /\ (LastFromCompact /\ \E i \in 1..Len(text) : text[i] = "_")
          => (last.res # "ok" /\ parsed = <<>>)

\* C9 witness: Board::parse took an 81-symbol text that uses all three blank
\* markers beside digits and returned the board the text denotes.
C9_Witness ==
    /\ LastParse
    /\ Is81Over(text, BlankMarkers)
    /\ \A b \in BlankMarkers : \E i \in 1..81 : text[i] = b
    /\ \E i \in 1..81 : IsDigitChar(text[i])
    /\ last.res = "ok"
    /\ BoardHolds(text)

\* C10 (as stated): for every 81-character string s that Grid::from_compact
\* accepts, from_compact(s).to_compact() is an 81-character string identical
\* to s.
C10_AsStated ==
    LastToCompact => (Len(out) = 81 /\ out = text)

\* C10 (amended): for every 81-character string s that Grid::from_compact
\* accepts, from_compact(s).to_compact() is the 81-character string s with
\* every '0' replaced by '.'; it is identical to s exactly when s holds no
\* '0'.
C10_RoundTrip ==
    LastToCompact =>
        /\ Len(text) = 81
        /\ Len(out) = 81
        /\ \A i \in 1..81 : out[i] = IF text[i] = "0" THEN "." ELSE text[i]
        /\ (out = text) <=> (\A i \in 1..81 : text[i] # "0")

\* C10 witness: an accepted text with digits and a '0' was formatted back,
\* and the '0' came back as '.'.
C10_Witness ==
    /\ LastToCompact
    /\ \E i \in 1..81 : IsDigitChar(text[i])
    /\ \E i \in 1..81 : text[i] = "0" /\ out[i] = "."
    /\ out # text

----------------------------------------------------------------------------
(* Claims about Solver::solve, checked under SpecSolve *)

\* A solution of SparsePuzzle (it has several).
SparseSolved == TextOf(
    <<3, 6, 7, 5, 9, 8, 4, 1, 2>> \o
    <<4, 1, 9, 2, 7, 6, 5, 3, 8>> \o
    <<5, 2, 8, 3, 1, 4, 9, 6, 7>> \o
    <<6, 9, 4, 1, 8, 5, 7, 2, 3>> \o
    <<1, 3, 5, 6, 2, 7, 8, 9, 4>> \o
    <<7, 8, 2, 4, 3, 9, 1, 5, 6>> \o
    <<8, 7, 1, 9, 6, 3, 2, 4, 5>> \o
    <<2, 5, 3, 7, 4, 1, 6, 8, 9>> \o
    <<9, 4, 6, 8, 5, 2, 3, 7, 1>>)

\* Completely filled, valid grids: solutions of the puzzles solved here.
KnownSolutions == {ValuesOf(EasySolved), ValuesOf(SparseSolved)}

\* The cells are fully filled, hold no duplicate in any row, column or box,
\* and agree with every given of the puzzle.
SolvesPuzzle(cells, givens) ==
    /\ \A i \in Cells : cells[i] \in 1..9
    /\ NoDuplicate(cells)
    /\ \A i \in Cells : givens[i] # 0 => cells[i] = givens[i]

HasSolution(givens) == \E s \in KnownSolutions : SolvesPuzzle(s, givens)

SolveDone == pc = "done"

\* C11 (as stated): for every puzzle that from_compact accepts and that has
\* at least one solution, Solver::solve in Hybrid mode returns Ok and leaves
\* the grid fully filled, with no duplicate digit in any row, column or
\* box, and with every given digit unchanged.
C11_AsStated ==
    (/\ SolveDone
     /\ mode = "Hybrid"
     /\ from_compact(text).res = "ok"
     /\ HasSolution(pre.cells))
    => (ret = "Ok" /\ SolvesPuzzle(g.cells, pre.cells))

\* C12 (as stated): for every puzzle on which SearchOnly solving ends with
\* a solved grid, Hybrid solving of the same puzzle ends with exactly the
\* same solved grid.
C12_AsStated ==
    (/\ SolveDone
     /\ mode = "Hybrid"
     /\ prev # <<>>
     /\ prev[1].mode = "SearchOnly"
     /\ prev[1].ret = "Ok"
     /\ is_solved(prev[1].grid))
    => (ret = "Ok" /\ g.cells = prev[1].grid.cells)

\* C16: Solver::solve follows the mode selector.  In LogicalOnly mode the
\* search is never invoked; in SearchOnly mode no strategy is ever tried or
\* applied; in Hybrid mode the search is invoked if and only if the
\* strategy phase has returned Ok with the grid not fully filled, and so
\* only once that phase has finished.
C16_ModeSelector ==
    /\ mode = "LogicalOnly" => (hist.search = "none" /\ pc # "search" /\ stack = <<>>)
    /\ mode = "SearchOnly" => (hist.logical = "none" /\ hist.applied = 0 /\ pc # "logical" /\ at = 0)
    /\ mode = "Hybrid" =>
          /\ hist.search # "none" <=> (hist.logical = "Ok" /\ hist.stalled)
          /\ pc = "search" => hist.logical = "Ok"
          /\ (pc = "done" /\ hist.logical = "Ok" /\ hist.stalled) => hist.search = "returned"

\* C16 witness: a Hybrid solve has returned after its strategy phase
\* applied strategies, returned Ok on an unfinished grid, and the search
\* ran.
C16_Witness ==
    /\ SolveDone
    /\ mode = "Hybrid"
    /\ hist.applied > 0
    /\ hist.logical = "Ok"
    /\ hist.stalled
    /\ hist.search = "returned"

\* C17 (as stated): no fatal condition is swallowed by Solver::solve.
\* Whenever solve returns Ok in SearchOnly or Hybrid mode the grid is fully
\* solved, and every contradiction met at top level (by the initial
\* candidate recomputation or by a failed strategy placement) is returned
\* to the caller as an error.
C17_AsStated ==
    SolveDone =>
       /\ (ret = "Ok" /\ mode \in {"SearchOnly", "Hybrid"})
             => (is_solved(g) /\ NoDuplicate(g.cells))
       /\ infer_all_candidates(pre).res # "ok" => ret = infer_all_candidates(pre).res
       /\ hist.logical = "Err" => ret \notin {"Ok", "none"}

----------------------------------------------------------------------------
(* Claims about the elimination strategies, checked under SpecStrategies *)

\* The solution of UniquePuzzle.
UniqueSolved == TextOf(
    <<8, 7, 2, 5, 9, 3, 1, 4, 6>> \o
    <<3, 4, 6, 8, 2, 1, 7, 5, 9>> \o
    <<1, 9, 5, 4, 7, 6, 2, 8, 3>> \o
    <<2, 8, 9, 1, 6, 5, 4, 3, 7>> \o
    <<6, 1, 3, 7, 4, 2, 5, 9, 8>> \o
    <<4, 5, 7, 3, 8, 9, 6, 1, 2>> \o
    <<5, 2, 1, 9, 3, 7, 8, 6, 4>> \o
    <<7, 3, 8, 6, 5, 4, 9, 2, 1>> \o
    <<9, 6, 4, 2, 1, 8, 3, 7, 5>>)

\* The solutions of the puzzles of StrategyTexts.
StrategySolutions == {ValuesOf(EasySolved), ValuesOf(UniqueSolved)}

\* Every empty cell's mask contains the digit the solution has there.
Covers(grid, sol) == \A i \in Cells : grid.cells[i] = 0 => sol[i] \in grid.cands[i]

Eliminations == {"naked_pair", "pointing_pair_triple", "box_line_reduction", "x_wing"}

\* C13: soundness of the eliminations.  When the grid a strategy among
\* naked_pair, pointing_pair_triple, box_line_reduction and x_wing is
\* called on has the solution S and every empty cell's mask contains S's
\* digit, then after the call every empty cell's mask still contains S's
\* digit for that cell.
C13_Soundness ==
    \A sol \in StrategySolutions :
        (/\ last.op \in Eliminations
         /\ SolvesPuzzle(sol, pre.cells)
         /\ Covers(pre, sol))
        => Covers(g, sol)

\* C13 witness: naked_pair removed candidates from a grid whose masks
\* contained the solution.
C13_Witness ==
    /\ last.op = "naked_pair"
    /\ last.res = "applied"
    /\ g.cands # pre.cands
    /\ \E sol \in StrategySolutions : SolvesPuzzle(sol, pre.cells) /\ Covers(pre, sol)

----------------------------------------------------------------------------
(* SpecCore: Solver::solve_steps of BacktrackingSolver and LogicalSolver.  *)
(* BacktrackingSolver's `rec` is run with an explicit stack of the         *)
(* activations that are inside their `for` loop; every step pushed to      *)
(* `steps` is one transition.                                              *)

\* The Board with the values of a text of 81 characters.
BoardOf(t) == from_rows([i \in 0..80 |-> board_value(t[i + 1])])

\* A puzzle with one solution and no naked or hidden single, on which
\* find_single_after_reductions finds a cell.
ReductionPuzzle == TextOf(
    <<0, 2, 3, 5, 7, 0, 8, 0, 6>> \o
    <<8, 7, 6, 1, 3, 0, 2, 5, 0>> \o
    <<0, 5, 4, 0, 8, 0, 3, 7, 0>> \o
    <<5, 3, 9, 0, 0, 0, 0, 8, 0>> \o
    <<6, 4, 7, 3, 1, 8, 5, 9, 2>> \o
    <<2, 1, 8, 0, 0, 5, 0, 3, 7>> \o
    <<4, 0, 2, 0, 0, 3, 0, 0, 5>> \o
    <<7, 0, 5, 0, 2, 1, 0, 0, 3>> \o
    <<3, 6, 1, 0, 5, 0, 0, 2, 8>>)

\* A puzzle with one solution on which the search guesses wrong and
\* backtracks.
BacktrackPuzzle == TextOf(
    <<6, 3, 9, 8, 1, 4, 7, 5, 2>> \o
    <<2, 4, 8, 5, 0, 0, 1, 6, 9>> \o
    <<7, 5, 1, 6, 9, 2, 0, 4, 0>> \o
    <<3, 7, 0, 2, 0, 0, 0, 0, 0>> \o
    <<0, 2, 5, 7, 4, 0, 0, 0, 6>> \o
    <<0, 8, 0, 3, 5, 0, 0, 0, 7>> \o
    <<5, 6, 2, 4, 0, 0, 0, 9, 1>> \o
    <<8, 9, 3, 1, 2, 5, 6, 7, 4>> \o
    <<4, 1, 7, 9, 0, 0, 0, 0, 0>>)

\* The grid of EasySolved without its cells (0,3), (0,4), (3,3), (3,4): a
\* puzzle with two solutions.
RectanglePuzzle ==
    [i \in 1..81 |-> IF (i - 1) \in {3, 4, 30, 31} THEN "." ELSE EasySolved[i]]

\* RectanglePuzzle with 6 at (0,3) and 7 at (3,4): no duplicate in any unit,
\* and no solution, (0,4) having no candidate.
StuckPuzzle ==
    [i \in 1..81 |-> IF i - 1 = 3 THEN "6" ELSE IF i - 1 = 31 THEN "7" ELSE RectanglePuzzle[i]]

\* The grid of EasySolved with 3 at (0,0): a full board with 3 twice in row
\* 0, in column 0 and in box 0.
ClashFull == [EasySolved EXCEPT ![1] = "3"]

CoreInputs ==
    {BoardOf(ReductionPuzzle), BoardOf(BacktrackPuzzle), BoardOf(RectanglePuzzle),
     BoardOf(StuckPuzzle), BoardOf(EasySolved), BoardOf(ClashFull)}

Solvers == {"Backtracking", "Logical"}

Budgets == (0..MaxSteps) \cup {NoBudget}

\* The budget test that takes None for Some(0).
budget_spent_none_is_zero(max, idx) == max = NoBudget \/ idx >= max

\* `if let Some(m) = max { if idx >= m ... }`
budget_spent(max, idx) == max # NoBudget /\ idx >= max

InitCore ==
    /\ g = empty
    /\ pre = empty
    /\ last = NoOp
    /\ ops = 0
    /\ text = <<>>
    /\ parsed = <<>>
    /\ board = <<>>
    /\ out = <<>>
    /\ EngineIdle

coreFrame == <<g, pre, last, ops, text, parsed, board, out, solveVars, gen, brute, call>>

\* solver.solve_steps(&input, max) is entered (lines 88-89, 132; 143-145).
SolveSteps(solver, input, max) ==
    /\ core.pc = "idle"
    /\ core' = [solver |-> solver, pc |-> IF solver = "Backtracking" THEN "rec" ELSE "while",
                input |-> input, max |-> max, b |-> input, steps |-> <<>>, idx |-> 0,
                stack |-> <<>>, ret |-> FALSE]
    /\ UNCHANGED coreFrame

\* rec is entered (lines 115-118): it returns at once, or starts its loop
\* over the candidates of the cell find_mrv chose.
RecEnter ==
    /\ core.pc = "rec"
    /\ \E m \in {find_mrv(core.b)} :
          IF board_is_solved(core.b) THEN core' = [core EXCEPT !.pc = "ret", !.ret = TRUE]
          ELSE IF budget_spent(core.max, core.idx)
               THEN core' = [core EXCEPT !.pc = "ret", !.ret = FALSE]
          ELSE IF m.kind = "none" THEN core' = [core EXCEPT !.pc = "ret", !.ret = TRUE]
          ELSE IF m.cand = {} THEN core' = [core EXCEPT !.pc = "ret", !.ret = FALSE]
          ELSE core' = [core EXCEPT !.pc = "for",
                           !.stack = Append(@, [r |-> m.r, c |-> m.c, cand |-> m.cand, v |-> 0])]
    /\ UNCHANGED coreFrame

\* The loop takes the next candidate v (lines 119-124): the Guess is pushed,
\* and rec is called if the board is valid with a candidate in every cell.
RecGuess ==
    /\ core.pc = "for"
    /\ \E top \in {core.stack[Len(core.stack)]} :
       \E v \in {x \in top.cand : x > top.v /\ \A y \in top.cand : y > top.v => x <= y} :
       \E nb \in {with_value(core.b, top.r, top.c, v)} :
          core' = [core EXCEPT
                     !.b = nb,
                     !.idx = @ + 1,
                     !.steps = Append(@, Step(core.idx + 1, "Guess", top.r, top.c, v, "", nb)),
                     !.stack[Len(core.stack)].v = v,
                     !.pc = IF is_valid(nb) /\ ~any_zero_candidate(nb) THEN "rec" ELSE "undo"]
    /\ UNCHANGED coreFrame

\* The loop is over (line 130): rec returns false.
RecExhausted ==
    /\ core.pc = "for"
    /\ \A x \in core.stack[Len(core.stack)].cand : x <= core.stack[Len(core.stack)].v
    /\ core' = [core EXCEPT !.pc = "ret", !.ret = FALSE,
                            !.stack = SubSeq(@, 1, Len(@) - 1)]
    /\ UNCHANGED coreFrame

\* The guess is undone (lines 126-128): the Backtrack is pushed, then the
\* budget is looked at.
RecUndo ==
    /\ core.pc = "undo"
    /\ \E top \in {core.stack[Len(core.stack)]} :
       \E nb \in {with_value(core.b, top.r, top.c, 0)} :
          core' = [core EXCEPT
                     !.b = nb,
                     !.idx = @ + 1,
                     !.steps = Append(@, Step(core.idx + 1, "Backtrack", 0, 0, 0, "", nb)),
                     !.pc = IF budget_spent(core.max, core.idx + 1) THEN "ret" ELSE "for",
                     !.ret = FALSE,
                     !.stack = IF budget_spent(core.max, core.idx + 1)
                               THEN SubSeq(@, 1, Len(@) - 1) ELSE @]
    /\ UNCHANGED coreFrame

\* The call of line 124 is back in its caller: true is handed on, false
\* leads to the undoing of the guess.
RecReturn ==
    /\ core.pc = "ret"
    /\ core.stack # <<>>
    /\ core' = IF core.ret THEN [core EXCEPT !.stack = SubSeq(@, 1, Len(@) - 1)]
               ELSE [core EXCEPT !.pc = "undo"]
    /\ UNCHANGED coreFrame

\* The outermost rec is back: solve_steps returns `steps` (lines 132-133).
BacktrackingReturn ==
    /\ core.pc = "ret"
    /\ core.stack = <<>>
    /\ core' = [core EXCEPT !.pc = "done"]
    /\ UNCHANGED coreFrame

\* What one round of the loop of LogicalSolver finds (lines 151-167): the
\* first of the three finders that returns Some.
first_found(b) ==
    IF find_naked_single(b).found THEN find_naked_single(b)
    ELSE IF find_hidden_single(b).found THEN find_hidden_single(b)
    ELSE find_single_after_reductions(b)

\* One round of the loop of LogicalSolver that places a digit (lines
\* 147-167).
LogicalPlace ==
    /\ core.pc = "while"
    /\ ~board_is_solved(core.b)
    /\ ~budget_spent(core.max, core.idx)
    /\ \E f \in {first_found(core.b)} :
          /\ f.found
          /\ \E nb \in {apply_place(core.b, f.r, f.c, f.v)} :
                core' = [core EXCEPT
                           !.b = nb,
                           !.idx = @ + 1,
                           !.steps = Append(@, Step(core.idx + 1, "Place", f.r, f.c, f.v,
                                                    f.reason, nb))]
    /\ UNCHANGED coreFrame

\* The loop of LogicalSolver ends (lines 147, 148, 168) and `steps` is
\* returned (line 170).
LogicalBreak ==
    /\ core.pc = "while"
    /\ \E stop \in {\/ board_is_solved(core.b)
                     \/ budget_spent(core.max, core.idx)
                     \/ ~first_found(core.b).found} : stop
    /\ core' = [core EXCEPT !.pc = "done"]
    /\ UNCHANGED coreFrame

NextCore ==
    \/ \E solver \in Solvers, input \in CoreInputs, max \in Budgets :
          SolveSteps(solver, input, max)
    \/ RecEnter
    \/ RecGuess
    \/ RecExhausted
    \/ RecUndo
    \/ RecReturn
    \/ BacktrackingReturn
    \/ LogicalPlace
    \/ LogicalBreak

SpecCore == InitCore /\ [][NextCore]_vars

----------------------------------------------------------------------------
(* SpecBrute: BacktracingBruteSolver::solve_to_completion on the board the *)
(* caller holds in `board`, one round of its outer loop a step.            *)

\* RectanglePuzzle with 3 at (0,0): its prefilled cells clash.
ClashOpen == [RectanglePuzzle EXCEPT ![1] = "3"]

BruteInputs == CoreInputs \cup {BoardOf(ClashOpen)}

\* The Vec `empties` (lines 40-41): the empty cells in row-major order.
RECURSIVE empties_of(_, _)
empties_of(b, E) ==
    IF E = {} THEN <<>> ELSE <<SetMin(E)>> \o empties_of(b, E \ {SetMin(E)})

\* The values the inner loop (lines 53-63) can stop at for the cell at
\* `pos`: the values below `from` that leave the board valid.
valid_below(b, pos, from) ==
    {v \in 1..(from - 1) : is_valid(with_value(b, pos \div 9, pos % 9, v))}

\* The result for a board without an empty cell (line 42).
brute_full(b) == <<b>>

InitBrute ==
    /\ g = empty
    /\ pre = empty
    /\ last = NoOp
    /\ ops = 0
    /\ text = <<>>
    /\ parsed = <<>>
    /\ board \in {<<b>> : b \in BruteInputs}
    /\ out = <<>>
    /\ EngineIdle

bruteFrame == <<g, pre, last, ops, text, parsed, board, out, solveVars, gen, core, call>>

\* solve_to_completion(&board) up to its loop (lines 38-46).
BruteCall ==
    /\ brute.pc = "idle"
    /\ \E es \in {empties_of(board[1], empty_cells(board[1]))} :
          brute' = IF es = <<>>
                   THEN [BruteIdle EXCEPT !.pc = "done", !.input = board[1], !.b = board[1],
                                          !.result = brute_full(board[1])]
                   ELSE [pc |-> "while", input |-> board[1], b |-> board[1], empties |-> es,
                         next |-> [k \in 1..Len(es) |-> 10], i |-> 0, result |-> <<>>]
    /\ UNCHANGED bruteFrame

\* A round of the outer loop whose inner loop stops at a value that leaves
\* the board valid (lines 49-63).
BrutePlace ==
    /\ brute.pc = "while"
    /\ brute.i >= 0 /\ brute.i < Len(brute.empties)
    /\ \E ok \in {valid_below(brute.b, brute.empties[brute.i + 1], brute.next[brute.i + 1])} :
          /\ ok # {}
          /\ \E v \in {x \in ok : \A y \in ok : y <= x} :
                brute' = [brute EXCEPT
                            !.b = with_value(@, brute.empties[brute.i + 1] \div 9,
                                             brute.empties[brute.i + 1] % 9, v),
                            !.next[brute.i + 1] = v,
                            !.i = @ + 1]
    /\ UNCHANGED bruteFrame

\* A round of the outer loop whose inner loop runs out of values: the cell
\* is reset and the loop steps back (lines 49-71).
BruteRetreat ==
    /\ brute.pc = "while"
    /\ brute.i >= 0 /\ brute.i < Len(brute.empties)
    /\ \E ok \in {valid_below(brute.b, brute.empties[brute.i + 1], brute.next[brute.i + 1])} :
          /\ ok = {}
          /\ brute' = [brute EXCEPT
                         !.b = with_value(@, brute.empties[brute.i + 1] \div 9,
                                          brute.empties[brute.i + 1] % 9, 0),
                         !.next[brute.i + 1] = 10,
                         !.i = @ - 1]
    /\ UNCHANGED bruteFrame

\* The outer loop is left and the result is returned (lines 74-76).
BruteReturn ==
    /\ brute.pc = "while"
    /\ ~(brute.i >= 0 /\ brute.i < Len(brute.empties))
    /\ brute' = [brute EXCEPT
                   !.pc = "done",
                   !.result = IF brute.i < 0 THEN <<>>
                              ELSE IF is_valid(brute.b) THEN <<brute.b>> ELSE <<>>]
    /\ UNCHANGED bruteFrame

NextBrute == BruteCall \/ BrutePlace \/ BruteRetreat \/ BruteReturn

SpecBrute == InitBrute /\ [][NextBrute]_vars

----------------------------------------------------------------------------
(* SpecReach: a session on the grid of a parsed puzzle in which every set  *)
(* and every infer_all_candidates returns Ok, and the strategies of        *)
(* utils.rs are called in any order.                                       *)

InitReach ==
    /\ \E s \in ReachTexts :
          \E r \in {from_compact(s)} :
             /\ r.res = "ok"
             /\ g = r.grid
             /\ text = s
    /\ pre = g
    /\ last = NoOp
    /\ ops = 0
    /\ parsed = <<>>
    /\ board = <<>>
    /\ out = <<>>
    /\ EngineIdle

\* grid.set(Pos{r, c}, d) returning Ok(())
SetOk(r, c, d) ==
    /\ \E p \in {place_idx(g, idx_of(r, c), d)} : p.res = "ok"
    /\ Set(r, c, d)

\* grid.infer_all_candidates() returning Ok(())
InferOk ==
    /\ \E p \in {infer_all_candidates(g)} : p.res = "ok"
    /\ InferAll

NextReach ==
    \/ \E p \in TestPos, d \in TestDigits : SetOk(p[1], p[2], d)
    \/ InferOk
    \/ \E n \in 1..6 : CallStrategy(n)

SpecReach == InitReach /\ [][NextReach]_vars

----------------------------------------------------------------------------
(* SpecOkSets: Grid::empty() followed by set calls that all return Ok.     *)

InitOkSets ==
    /\ g = empty
    /\ text = Dots(81)
    /\ pre = g
    /\ last = NoOp
    /\ ops = 0
    /\ parsed = <<>>
    /\ board = <<>>
    /\ out = <<>>
    /\ EngineIdle

NextOkSets == \E p \in TestPos, d \in TestDigits : SetOk(p[1], p[2], d)

SpecOkSets == InitOkSets /\ [][NextOkSets]_vars

----------------------------------------------------------------------------
(* SpecBoard: Board::conflict_mask called on the board the caller holds.   *)
(* The boards are an empty, a partly filled and a full valid board with up *)
(* to two cells overwritten.                                               *)

MaskBases == {board_empty, BoardOf(EasyPuzzle), BoardOf(EasySolved)}

Overwrites(B) == {with_value(b, p[1], p[2], v) : b \in B, p \in TestPos, v \in 0..9}

MaskInputs == Overwrites(Overwrites(MaskBases))

InitBoard ==
    /\ g = empty
    /\ pre = g
    /\ last = NoOp
    /\ ops = 0
    /\ text = <<>>
    /\ parsed = <<>>
    /\ board \in {<<b>> : b \in MaskInputs}
    /\ out = <<>>
    /\ EngineIdle

\* board.conflict_mask()
ConflictMask ==
    /\ call = CallIdle
    /\ call' = [fn |-> "conflict_mask", arg |-> board, out |-> <<conflict_mask(board[1])>>]
    /\ UNCHANGED <<g, pre, last, ops, text, parsed, board, out, solveVars, gen, core, brute>>

NextBoard == ConflictMask

SpecBoard == InitBoard /\ [][NextBoard]_vars

----------------------------------------------------------------------------
(* SpecReduce: find_single_after_reductions on the board the caller holds, *)
(* one call of mask_from_candidates, apply_locked_pointing_claiming or     *)
(* reduce_by_naked_pairs_unit a step.  `call` holds the function called    *)
(* last, what it was called with for the cell arg.i, and what it returned. *)

\* A board without a naked or hidden single where a box has all its places
\* for a digit in one line that goes on through the box of the cell reduced.
PointingBoard == TextOf(
    <<0, 2, 5, 3, 0, 0, 0, 4, 8>> \o
    <<0, 1, 0, 5, 0, 4, 0, 3, 2>> \o
    <<0, 3, 4, 6, 2, 0, 5, 0, 0>> \o
    <<1, 8, 3, 9, 5, 2, 4, 0, 0>> \o
    <<5, 4, 6, 8, 0, 0, 9, 2, 1>> \o
    <<2, 9, 7, 1, 4, 6, 8, 5, 3>> \o
    <<3, 7, 0, 4, 0, 0, 2, 0, 5>> \o
    <<4, 5, 1, 2, 0, 0, 0, 8, 0>> \o
    <<0, 6, 2, 7, 0, 5, 0, 0, 4>>)

\* A board without a naked or hidden single where the cell reduced is one
\* of the two cells of a naked pair of its column.
PairCellBoard == TextOf(
    <<0, 3, 0, 0, 9, 0, 0, 5, 0>> \o
    <<6, 0, 0, 0, 5, 3, 0, 9, 8>> \o
    <<9, 5, 0, 1, 0, 0, 0, 4, 3>> \o
    <<3, 0, 0, 5, 0, 4, 8, 2, 9>> \o
    <<4, 2, 9, 0, 3, 0, 5, 0, 6>> \o
    <<8, 0, 5, 2, 0, 9, 3, 0, 4>> \o
    <<0, 9, 0, 0, 0, 5, 0, 3, 0>> \o
    <<5, 4, 6, 3, 0, 0, 9, 8, 7>> \o
    <<1, 8, 3, 9, 0, 7, 0, 6, 5>>)

\* A board without a naked or hidden single where claiming removes a
\* candidate.
ClaimingBoard == TextOf(
    <<7, 0, 0, 0, 4, 0, 3, 9, 2>> \o
    <<0, 0, 4, 0, 0, 9, 7, 6, 1>> \o
    <<9, 0, 0, 0, 0, 0, 5, 8, 4>> \o
    <<1, 7, 6, 4, 9, 0, 8, 0, 3>> \o
    <<2, 0, 0, 1, 0, 6, 4, 7, 9>> \o
    <<0, 4, 9, 0, 0, 0, 1, 0, 6>> \o
    <<6, 0, 0, 2, 7, 4, 9, 3, 8>> \o
    <<4, 8, 7, 9, 6, 3, 2, 1, 5>> \o
    <<3, 9, 2, 5, 1, 8, 6, 4, 7>>)

ReduceInputs ==
    {BoardOf(t) : t \in {PointingBoard, PairCellBoard, ClaimingBoard, ReductionPuzzle, StuckPuzzle}}

InitReduce ==
    /\ g = empty
    /\ pre = g
    /\ last = NoOp
    /\ ops = 0
    /\ text = <<>>
    /\ parsed = <<>>
    /\ board \in {<<b>> : b \in ReduceInputs}
    /\ out = <<>>
    /\ EngineIdle

reduceFrame == <<g, pre, last, ops, text, parsed, board, out, solveVars, gen, core, brute>>

\* What a call was made with: the cell i, the mask passed, the mask at the
\* top of the loop round, and for reduce_by_naked_pairs_unit the unit's
\* candidates and the place k of the cell i in the unit.
ReduceArg(i, mask, before, k, unit_cands) ==
    [i |-> i, mask |-> mask, before |-> before, k |-> k, unit_cands |-> unit_cands]

\* The empty cells after `from` that line 211 does not skip.
cells_to_reduce(b, from) ==
    {i \in Cells : i > from /\ value_at(b, i \div 9, i % 9) = 0
                              /\ Cardinality(candidates(b, i \div 9, i % 9)) > 1}

\* The loop of lines 213-219 has gone round and ends (lines 217, 218).
LoopBreaks ==
    /\ call.fn = "reduce_by_naked_pairs_unit(box)"
    /\ (call.out = call.arg.before \/ Cardinality(call.out) = 1)

\* The loop goes round again.
LoopRepeats ==
    /\ call.fn = "reduce_by_naked_pairs_unit(box)"
    /\ ~(call.out = call.arg.before \/ Cardinality(call.out) = 1)

\* The cell the scan of line 209 left last: none before the first.
cell_left == IF call.fn = "none" THEN -1 ELSE call.arg.i

\* Lines 209-211: the scan is at its start, or the loop has ended without a
\* single; the next cell of two candidates or more gets its mask.
ReduceCell ==
    /\ call.fn = "none" \/ (LoopBreaks /\ Cardinality(call.out) # 1)
    /\ \E todo \in {cells_to_reduce(board[1], cell_left)} :
          /\ todo # {}
          /\ \E i \in {SetMin(todo)} :
                call' = [fn |-> "mask_from_candidates",
                         arg |-> ReduceArg(i, {}, {}, 0, <<>>),
                         out |-> mask_from_candidates(candidates(board[1], i \div 9, i % 9))]
    /\ UNCHANGED reduceFrame

\* Lines 214-215
ApplyLocked ==
    /\ call.fn = "mask_from_candidates" \/ LoopRepeats
    /\ call' = [fn |-> "apply_locked_pointing_claiming",
                arg |-> ReduceArg(call.arg.i, call.out, call.out, 0, <<>>),
                out |-> apply_locked_pointing_claiming(
                            board[1], call.arg.i \div 9, call.arg.i % 9, call.out)]
    /\ UNCHANGED reduceFrame

\* Line 293
ReduceRow ==
    /\ call.fn = "apply_locked_pointing_claiming"
    /\ \E u \in {unit_candidates_row(board[1], call.arg.i \div 9)} :
          call' = [fn |-> "reduce_by_naked_pairs_unit(row)",
                   arg |-> ReduceArg(call.arg.i, call.out, call.arg.before,
                                     (call.arg.i % 9) + 1, u),
                   out |-> reduce_by_naked_pairs_unit(call.out, u)]
    /\ UNCHANGED reduceFrame

\* Line 294
ReduceCol ==
    /\ call.fn = "reduce_by_naked_pairs_unit(row)"
    /\ \E u \in {unit_candidates_col(board[1], call.arg.i % 9)} :
          call' = [fn |-> "reduce_by_naked_pairs_unit(col)",
                   arg |-> ReduceArg(call.arg.i, call.out, call.arg.before,
                                     (call.arg.i \div 9) + 1, u),
                   out |-> reduce_by_naked_pairs_unit(call.out, u)]
    /\ UNCHANGED reduceFrame

\* Line 295
ReduceBox ==
    /\ call.fn = "reduce_by_naked_pairs_unit(col)"
    /\ \E u \in {unit_candidates_box(board[1], call.arg.i \div 27, (call.arg.i % 9) \div 3)} :
          call' = [fn |-> "reduce_by_naked_pairs_unit(box)",
                   arg |-> ReduceArg(call.arg.i, call.out, call.arg.before,
                                     ((call.arg.i \div 9) % 3) * 3 + (call.arg.i % 3) + 1, u),
                   out |-> reduce_by_naked_pairs_unit(call.out, u)]
    /\ UNCHANGED reduceFrame

\* Lines 220-223: the loop has ended with one bit.
ReduceSome ==
    /\ LoopBreaks
    /\ Cardinality(call.out) = 1
    /\ call' = [fn |-> "find_single_after_reductions",
                arg |-> call.arg,
                out |-> Some(call.arg.i \div 9, call.arg.i % 9, SetMin(call.out),
                             "Single after reductions (pointing/claiming, pairs)")]
    /\ UNCHANGED reduceFrame

\* Line 225: no cell is left.
ReduceNone ==
    /\ call.fn = "none" \/ (LoopBreaks /\ Cardinality(call.out) # 1)
    /\ cells_to_reduce(board[1], cell_left) = {}
    /\ call' = [fn |-> "find_single_after_reductions",
                arg |-> ReduceArg(cell_left, {}, {}, 0, <<>>),
                out |-> None]
    /\ UNCHANGED reduceFrame

NextReduce ==
    \/ ReduceCell
    \/ ApplyLocked
    \/ ReduceRow
    \/ ReduceCol
    \/ ReduceBox
    \/ ReduceSome
    \/ ReduceNone

SpecReduce == InitReduce /\ [][NextReduce]_vars

----------------------------------------------------------------------------
(* Claims about PuzzleGenerator::generate_puzzle                           *)

\* The number of nonzero cells of a board.
nonzero_cells(b) == 81 - Cardinality(empty_cells(b))

\* C14: the board generate_puzzle works on has exactly one solution
\* (count_solutions with cap 2 returns 1) when the loop is entered, after
\* every iteration of the loop, and when it is returned, for every target
\* and every shuffle.
C14_UniqueSolution ==
    gen.pc \in {"loop", "done"} => count_solutions(gen.b, 2) = 1

\* C14's case: a board is returned with clues removed after an iteration
\* found two solutions and restored its cell.
C14_Witness ==
    /\ gen.pc = "done"
    /\ gen.restores > 0
    /\ gen.count = 1
    /\ nonzero_cells(gen.b) < 81

\* C15: at the start of every iteration `clues` is the number of nonzero
\* cells of the board; the returned board has at most 81 nonzero cells and,
\* for a target of at most 81, at least target_clues of them; and when the
\* positions are used up with the target not reached, the loop is left
\* for the return, and the board returned holds the `clues` cells, more than
\* the target.
C15_ClueCounter ==
    /\ gen.pc = "loop" => gen.clues = nonzero_cells(gen.b)
    /\ gen.pc = "done" =>
          /\ nonzero_cells(gen.b) <= 81
          /\ gen.target <= 81 => nonzero_cells(gen.b) >= gen.target
    /\ (gen.pc = "loop" /\ gen.todo = {} /\ gen.clues > gen.target) => ENABLED GenReturn
    /\ (gen.pc = "done" /\ gen.todo = {} /\ gen.clues > gen.target) =>
          nonzero_cells(gen.b) > gen.target

\* C15's case: every position was visited, cells were restored, and the
\* board is returned with more clues than the target.
C15_Witness ==
    /\ gen.pc = "done"
    /\ gen.todo = {}
    /\ gen.restores > 0
    /\ gen.target <= 81
    /\ nonzero_cells(gen.b) > gen.target

----------------------------------------------------------------------------
(* Claims about solve_steps of suko-core                                   *)

\* The inputs of solve_steps that have exactly one solution, and the
\* solution of each.
UniqueInputs == {b \in CoreInputs : count_solutions(b, 2) = 1}
SolutionOf == [b \in UniqueInputs |-> CHOOSE s \in completions(b) : TRUE]

\* The inputs of solve_steps that have a solution.
SolvableInputs == {b \in CoreInputs : count_solutions(b, 1) = 1}

\* The board a step was made on: the input for the first step, else the
\* snapshot of the step before.
board_before(k) == IF k = 1 THEN core.input ELSE core.steps[k - 1].board

\* C18: solve_steps(board, Some(m)) returns at most m steps, for both
\* solvers.
C18_AsStated ==
    (core.pc = "done" /\ core.max # NoBudget) => Len(core.steps) <= core.max

\* C19: on a valid input with one solution S, every step of LogicalSolver is
\* a Place that fills one empty cell of the snapshot before it with S's
\* digit for the cell, and its snapshot is that snapshot with the cell
\* filled, without a duplicate in any unit.
C19_SoundPlaces ==
    (core.solver = "Logical" /\ is_valid(core.input) /\ core.input \in UniqueInputs) =>
        \A k \in 1..Len(core.steps) :
            /\ core.steps[k].kind = "Place"
            /\ value_at(board_before(k), core.steps[k].r, core.steps[k].c) = 0
            /\ core.steps[k].v \in 1..9
            /\ core.steps[k].v =
                   value_at(SolutionOf[core.input], core.steps[k].r, core.steps[k].c)
            /\ core.steps[k].board =
                   with_value(board_before(k), core.steps[k].r, core.steps[k].c, core.steps[k].v)
            /\ is_valid(core.steps[k].board)

\* C19's case: LogicalSolver has returned steps found by each of its three
\* finders on an input with one solution.
C19_Witness ==
    /\ core.solver = "Logical"
    /\ core.pc = "done"
    /\ is_valid(core.input)
    /\ core.input \in UniqueInputs
    /\ \E k \in 1..Len(core.steps) : core.steps[k].reason = "Naked single"
    /\ \E k \in 1..Len(core.steps) : core.steps[k].reason = "Hidden single"
    /\ \E k \in 1..Len(core.steps) :
          core.steps[k].reason = "Single after reductions (pointing/claiming, pairs)"

\* C20: on a valid, unsolved board with a solution, solve_steps(board, None)
\* of BacktrackingSolver returns steps, and the board of the last one is
\* full, without a duplicate in any unit, and holds every value of the
\* input.
C20_SolvesBySearch ==
    (/\ core.solver = "Backtracking"
     /\ core.pc = "done"
     /\ core.max = NoBudget
     /\ is_valid(core.input)
     /\ ~board_is_solved(core.input)
     /\ core.input \in SolvableInputs) =>
        /\ core.steps # <<>>
        /\ empty_cells(core.steps[Len(core.steps)].board) = {}
        /\ is_valid(core.steps[Len(core.steps)].board)
        /\ \A i \in Cells :
              value_at(core.input, i \div 9, i % 9) # 0 =>
                 value_at(core.steps[Len(core.steps)].board, i \div 9, i % 9) =
                     value_at(core.input, i \div 9, i % 9)

\* C20's case: the search has returned from an input with a solution after
\* it undid a guess.
C20_Witness ==
    /\ core.solver = "Backtracking"
    /\ core.pc = "done"
    /\ core.max = NoBudget
    /\ is_valid(core.input)
    /\ ~board_is_solved(core.input)
    /\ core.input \in SolvableInputs
    /\ \E k \in 1..Len(core.steps) : core.steps[k].kind = "Backtrack"
    /\ board_is_solved(core.steps[Len(core.steps)].board)

----------------------------------------------------------------------------
(* Claims about BacktracingBruteSolver::solve_to_completion                *)

\* The board b is full, without a duplicate in any unit, and holds every
\* value of the board `input`.
Completes(b, input) ==
    /\ empty_cells(b) = {}
    /\ is_valid(b)
    /\ \A i \in Cells : value_at(input, i \div 9, i % 9) # 0 =>
          value_at(b, i \div 9, i % 9) = value_at(input, i \div 9, i % 9)

\* C21: solve_to_completion returns Some(b) only for a b that is full, valid
\* and holds the input's values; it returns None exactly when the input has
\* no valid completion; and the caller's board is what it was.
C21_AsStated ==
    brute.pc = "done" =>
        /\ brute.result # <<>> => Completes(brute.result[1], brute.input)
        /\ brute.result = <<>> <=> completions(brute.input) = {}
        /\ board = <<brute.input>>

----------------------------------------------------------------------------
(* Claims about the invariants of Grid                                     *)

\* C22 (as stated): in every grid reached by Ok sets, Ok
\* infer_all_candidates and strategy applications, a filled cell has an
\* empty mask and no empty cell's mask holds a digit committed in a peer.
C22_AsStated ==
    \A i \in Cells :
        /\ g.cells[i] # 0 => g.cands[i] = {}
        /\ g.cells[i] = 0 => g.cands[i] \cap PeerValues(g.cells, i) = {}

\* A row, column or box of the cells holds a nonzero digit twice.
HasDuplicate(cells) ==
    \E i \in Cells : cells[i] # 0 /\ cells[i] \in PeerValues(cells, i)

\* C23: after any sequence of set calls that return Ok on Grid::empty(), no
\* row, column or box holds the same nonzero digit twice.
C23_NoDuplicates == ~HasDuplicate(g.cells)

\* Three Ok sets have filled two cells of one row and a cell that shares a
\* box with one of them.
C23_Witness ==
    /\ ops = 3
    /\ g.cells[idx_of(0, 8)] # 0
    /\ g.cells[idx_of(0, 0)] # 0
    /\ g.cells[idx_of(1, 7)] # 0

----------------------------------------------------------------------------
(* Claims about Board::conflict_mask                                       *)

\* Some other cell of the row, the column or the box of (r, c) holds the
\* value of (r, c).
SharesValue(b, r, c) ==
    \E j \in UnitPeers(idx_of(r, c)) : value_at(b, j \div 9, j % 9) = value_at(b, r, c)

\* C24: conflict_mask marks (r, c) exactly when the cell is nonzero and
\* another cell of its row, column or box holds the same value; is_valid is
\* true exactly when the mask is false everywhere.
C24_ConflictMask ==
    call.fn = "conflict_mask" =>
        /\ \A r, c \in 0..8 :
              call.out[1][r][c] <=>
                 (value_at(call.arg[1], r, c) # 0 /\ SharesValue(call.arg[1], r, c))
        /\ is_valid(call.arg[1]) <=> \A r, c \in 0..8 : ~call.out[1][r][c]

\* conflict_mask has marked r0c8 and r1c7, which hold the same value and
\* share a box but neither a row nor a column, on a board whose rows and
\* columns have no duplicate.
C24_Witness ==
    /\ call.fn = "conflict_mask"
    /\ call.out[1][0][8] /\ call.out[1][1][7]
    /\ value_at(call.arg[1], 0, 8) = value_at(call.arg[1], 1, 7)
    /\ \A k \in 0..8 : no_dupes(row_values(call.arg[1], k)) /\ no_dupes(col_values(call.arg[1], k))
    /\ ~is_valid(call.arg[1])

----------------------------------------------------------------------------
(* Claims about naked_single, hidden_single and naked_pair, checked under  *)
(* SpecStrategies                                                          *)

\* The empty cells of the grid with exactly one candidate.
SingleCells(grid) == {i \in Cells : grid.cells[i] = 0 /\ Cardinality(grid.cands[i]) = 1}

\* C25 (as stated): when some empty cell has exactly one candidate,
\* naked_single commits that candidate into the first such cell in
\* row-major order and reports applied; when there is none it reports
\* not applied.
C25_AsStated ==
    last.op = "naked_single" =>
        IF SingleCells(pre) = {} THEN last.res = "not applied"
        ELSE /\ last.res = "applied"
             /\ \E i \in SingleCells(pre) :
                   /\ \A j \in SingleCells(pre) : i <= j
                   /\ g.cells[i] \in pre.cands[i]

\* The 27 units as the data model numbers them: rows 0..8, columns 0..8,
\* boxes 0..8 row-major.
UnitCells(u) ==
    IF u < 9 THEN {i \in Cells : RowOf(i) = u}
    ELSE IF u < 18 THEN {i \in Cells : ColOf(i) = u - 9}
    ELSE {i \in Cells : BoxOf(i) = u - 18}

\* The empty cells of unit u that have d as a candidate.
PositionsOf(grid, u, d) == {i \in UnitCells(u) : grid.cells[i] = 0 /\ d \in grid.cands[i]}

\* The (unit, digit) pairs with exactly one candidate position.
HiddenPairs(grid) ==
    {p \in (0..26) \X (1..9) : Cardinality(PositionsOf(grid, p[1], p[2])) = 1}

\* C26: when some unit has a digit with exactly one candidate position,
\* hidden_single commits the digit at that position for the first such
\* (unit, digit) pair, rows before columns before boxes, by ascending unit
\* and then ascending digit, and no other cell value changes; when there is
\* no such pair it reports not applied and changes nothing.
C26_HiddenSingle ==
    last.op = "hidden_single" =>
        IF HiddenPairs(pre) = {} THEN last.res = "not applied" /\ g = pre
        ELSE \E p \in HiddenPairs(pre) :
                /\ \A q \in HiddenPairs(pre) : p[1] * 9 + p[2] <= q[1] * 9 + q[2]
                /\ \A i \in Cells :
                      g.cells[i] = IF i \in PositionsOf(pre, p[1], p[2]) THEN p[2]
                                   ELSE pre.cells[i]

\* hidden_single has placed the digit of a box after it found no row and no
\* column with a hidden single.
C26_Witness ==
    /\ last.op = "hidden_single"
    /\ last.res = "applied"
    /\ g.cells # pre.cells
    /\ HiddenPairs(pre) # {}
    /\ \A p \in HiddenPairs(pre) : p[1] >= 18

\* C27 (as stated): when naked_pair reports applied, some unit has two
\* empty cells i and j with the same two-digit mask m; afterwards no other
\* empty cell of that unit has a digit of m, the masks of i and j are what
\* they were, no mask outside that unit has changed, and no cell value has
\* changed.
C27_AsStated ==
    (last.op = "naked_pair" /\ last.res = "applied") =>
        \E u \in 0..26 : \E i, j \in UnitCells(u) :
            /\ i # j
            /\ pre.cells[i] = 0 /\ pre.cells[j] = 0
            /\ Cardinality(pre.cands[i]) = 2
            /\ pre.cands[j] = pre.cands[i]
            /\ \A k \in UnitCells(u) \ {i, j} :
                  g.cells[k] = 0 => g.cands[k] \cap pre.cands[i] = {}
            /\ g.cands[i] = pre.cands[i]
            /\ g.cands[j] = pre.cands[j]
            /\ \A k \in Cells \ UnitCells(u) : g.cands[k] = pre.cands[k]
            /\ g.cells = pre.cells

----------------------------------------------------------------------------
(* Claims about the reductions of the suko-core logical solver, checked    *)
(* under SpecReduce                                                        *)

\* The empty cells of the set U that have v as a candidate on the board b.
PlacesFor(b, U, v) == {j \in U : open_for(b, j \div 9, j % 9, v)}

BoxCells(x) == {j \in Cells : BoxOf(j) = x}
RowCells(x) == {j \in Cells : RowOf(j) = x}
ColCells(x) == {j \in Cells : ColOf(j) = x}

\* Some box other than the box of cell i has all its places for v in the
\* row of i, or all of them in the column of i.
PointsAt(b, i, v) ==
    \E x \in 0..8 :
        /\ x # BoxOf(i)
        /\ PlacesFor(b, BoxCells(x), v) # {}
        /\ \/ PlacesFor(b, BoxCells(x), v) \subseteq RowCells(RowOf(i))
           \/ PlacesFor(b, BoxCells(x), v) \subseteq ColCells(ColOf(i))

\* C28 (as stated): when a box has all its places for v in one row (or one
\* column), apply_locked_pointing_claiming removes v from the mask of a cell
\* of that row (or column) outside that box.
C28_AsStated ==
    call.fn = "apply_locked_pointing_claiming" =>
        \A v \in 1..9 : PointsAt(board[1], call.arg.i, v) => v \notin call.out

\* Some row or column that does not hold cell i has all its places for v in
\* the box of i.
ClaimedFrom(b, i, v) ==
    \/ \E x \in 0..8 :
          /\ x # RowOf(i)
          /\ PlacesFor(b, RowCells(x), v) # {}
          /\ PlacesFor(b, RowCells(x), v) \subseteq BoxCells(BoxOf(i))
    \/ \E x \in 0..8 :
          /\ x # ColOf(i)
          /\ PlacesFor(b, ColCells(x), v) # {}
          /\ PlacesFor(b, ColCells(x), v) \subseteq BoxCells(BoxOf(i))

\* C29: when a row (or column) has all its places for v in one box,
\* apply_locked_pointing_claiming removes v from the mask of a cell of that
\* box that is not on that line; the mask returned has no bit that the mask
\* passed did not have.
C29_Claiming ==
    call.fn = "apply_locked_pointing_claiming" =>
        /\ \A v \in 1..9 : ClaimedFrom(board[1], call.arg.i, v) => v \notin call.out
        /\ call.out \subseteq call.arg.mask

\* apply_locked_pointing_claiming was passed a mask with a digit that a
\* line claims for the box of the cell, and has removed it.
C29_Witness ==
    /\ call.fn = "apply_locked_pointing_claiming"
    /\ \E v \in call.arg.mask : ClaimedFrom(board[1], call.arg.i, v) /\ v \notin call.out

\* The masks of two digits that exactly two cells of the unit have.
NakedPairs(unit_cands) ==
    {unit_cands[x] : x \in {x \in 1..9 :
        /\ Cardinality(unit_cands[x]) = 2
        /\ Cardinality({y \in 1..9 : unit_cands[y] = unit_cands[x]}) = 2}}

ReduceCalls ==
    {"reduce_by_naked_pairs_unit(row)", "reduce_by_naked_pairs_unit(col)",
     "reduce_by_naked_pairs_unit(box)"}

\* C30 (as stated): for every pair {a, b} that exactly two cells of the unit
\* have as their candidates, reduce_by_naked_pairs_unit returns for a
\* current cell that is not one of the two a mask without a and b, and for
\* a current cell that is one of the two a mask in which that pair has
\* changed nothing.
C30_AsStated ==
    call.fn \in ReduceCalls =>
        \A pm \in NakedPairs(call.arg.unit_cands) :
            IF call.arg.unit_cands[call.arg.k] = pm
            THEN call.out \cap pm = call.arg.mask \cap pm
            ELSE call.out \cap pm = {}

----------------------------------------------------------------------------
(* Claims about Solver::solve_logically, checked under SpecSolve           *)

\* What the k-th strategy of the order naked single, hidden single, naked
\* pair, pointing pair/triple, box-line reduction, X-wing reports on the
\* grid, and the grid it leaves.
InOrder(k, grid) ==
    CASE k = 1 -> [applied |-> naked_single(grid).applied, grid |-> naked_single(grid).grid]
      [] k = 2 -> [applied |-> hidden_single(grid).applied, grid |-> hidden_single(grid).grid]
      [] k = 3 -> [applied |-> naked_pair(grid).applied, grid |-> naked_pair(grid).grid]
      [] k = 4 -> [applied |-> pointing_pair_triple(grid).applied,
                   grid |-> pointing_pair_triple(grid).grid]
      [] k = 5 -> [applied |-> box_line_reduction(grid).applied,
                   grid |-> box_line_reduction(grid).grid]
      [] k = 6 -> [applied |-> x_wing(grid).applied, grid |-> x_wing(grid).grid]

\* C31: in solve_logically strategy k of the fixed order is attempted only
\* when strategies 1..k-1 have just reported not-applied on the grid as it
\* is; after a strategy applies, naked single is attempted next; and what
\* is attempted next and on which grid is a function of the grid, so that
\* two runs on the same grid apply the same sequence.
C31_FixedOrder ==
    [][(pc = "logical" /\ pc' = "logical" /\ at \in 1..6) =>
          \E r \in {InOrder(at, g)} :
             /\ g' = r.grid
             /\ at' = IF r.applied THEN 1 ELSE at + 1
             /\ \A j \in 1..(at' - 1) : ~InOrder(j, g').applied]_vars

\* X-wing is about to be attempted in an iteration that follows the
\* application of a strategy.
C31_Witness ==
    /\ pc = "logical"
    /\ at = 6
    /\ hist.applied > 0

----------------------------------------------------------------------------
(* Claims about what a strategy's report says of the grid, checked under   *)
(* SpecStrategies                                                          *)

StrategyOps == {StrategyNames[n] : n \in 1..6}

\* C32: a strategy that reports not-applied has left every cell value and
\* every candidate mask as it was, and one that reports applied has changed
\* a cell value or a candidate mask.
C32_ReportMatchesChange ==
    last.op \in StrategyOps =>
        /\ last.res = "not applied" => g = pre
        /\ last.res = "applied" => g # pre

\* box_line_reduction has reported applied on a grid in which it removed a
\* candidate and placed nothing.
C32_Witness ==
    /\ last.op = "box_line_reduction"
    /\ last.res = "applied"
    /\ g.cands # pre.cands
    /\ g.cells = pre.cells

\* No strategy is applicable to the grid: no empty cell has exactly one
\* candidate, no unit has a digit with exactly one position, and none of the
\* four eliminations removes a candidate.
Fixpoint(grid) ==
    /\ SingleCells(grid) = {}
    /\ HiddenPairs(grid) = {}
    /\ \A k \in 3..6 : ~InOrder(k, grid).applied

\* The empty cells and the candidates left in them: what a strategy that
\* applies makes smaller.
Measure(grid) ==
    Cardinality({i \in Cells : grid.cells[i] = 0})
    + Cardinality({p \in Cells \X (1..9) : grid.cells[p[1]] = 0 /\ p[2] \in grid.cands[p[1]]})

\* C33: solve_logically terminates, since every step inside it either ends
\* it or moves to a later strategy on the same grid or leaves a smaller
\* grid (fewer empty cells and candidates); and when it returns Ok no
\* strategy is applicable to the grid it leaves.
C33_TerminatesAtFixpoint ==
    [][/\ pc = "logical" =>
             \/ pc' # "logical"
             \/ Measure(g') = Measure(g) /\ at' > at /\ at' <= 7
             \/ Measure(g') < Measure(g)
       /\ (hist.logical = "running" /\ hist'.logical = "Ok") => Fixpoint(g')]_vars

\* solve_logically has returned Ok after it applied a strategy, on a grid
\* that is not solved.
C33_Witness ==
    /\ hist.logical = "Ok"
    /\ hist.search # "returned"
    /\ hist.applied > 0
    /\ ~is_solved(g)

----------------------------------------------------------------------------
(* SpecCount: count_solutions called on a board with up to MaxBlanks open  *)
(* cells, or on a board whose filled cells clash, with a limit of up to    *)
(* MaxLimit.                                                               *)

\* The board of a text with the cells of E emptied.
Cleared(t, E) == BoardOf([i \in 1..81 |-> IF (i - 1) \in E THEN "." ELSE t[i]])

CountInputs ==
    {Cleared(EasySolved, E) : E \in {E \in SUBSET GenPool : Cardinality(E) <= MaxBlanks}}
    \cup {BoardOf(ClashFull), BoardOf(ClashOpen)}

InitCount ==
    /\ g = empty
    /\ pre = g
    /\ last = NoOp
    /\ ops = 0
    /\ text = <<>>
    /\ parsed = <<>>
    /\ board = <<>>
    /\ out = <<>>
    /\ EngineIdle

\* count_solutions(&mut b, limit) (lines 103-105): backtrack runs from a
\* count of 0 on the caller's board.
CountSolutions(b, limit) ==
    /\ call = CallIdle
    /\ \E run \in {backtrack(Run(b), limit)} :
          call' = [fn |-> "count_solutions", arg |-> <<b, limit>>,
                   out |-> <<run.count, run.b, run.late>>]
    /\ UNCHANGED <<g, pre, last, ops, text, parsed, board, out, solveVars, gen, core, brute>>

NextCount == \E b \in CountInputs, limit \in 0..MaxLimit : CountSolutions(b, limit)

SpecCount == InitCount /\ [][NextCount]_vars

----------------------------------------------------------------------------
(* SpecFill: generate_puzzle from its call of generate_full_grid on, a     *)
(* call of fill_grid, an iteration of its loop or a return a step.  `call` *)
(* holds the run of generate_full_grid: the board, the activations of      *)
(* fill_grid, and the number of values taken back.                         *)

\* The outcomes of digits.shuffle (line 58) considered, as <<a, s, t>>:
\* the call of fill_grid at depth k gets the digits from a * k + s + 1 on
\* in steps of t.  <<0, 0, 1>> is the ascending order, <<0, 8, 8>> the
\* descending one.
FillShuffles == {0, 3} \X (0..MaxShift) \X {1, 2, 8}

shuffled(p, k) == [i \in 1..9 |-> ((p[1] * k + p[2] + (i - 1) * p[3]) % 9) + 1]

\* The targets generate_puzzle is called with here, and the order of its
\* positions.
FillTargets == {81, 80, 79}

fillFrame == <<g, pre, last, ops, text, parsed, board, out, solveVars, core, brute>>

\* generate_full_grid() is entered (lines 19-20): fill_grid is called on
\* the empty board.
FillStart(p) ==
    /\ call = CallIdle
    /\ gen.pc = "idle"
    /\ call' = [fn |-> "generate_full_grid", arg |-> p, out |-> <<>>, pc |-> "call",
                b |-> board_empty, stack |-> <<>>, ret |-> FALSE, undone |-> 0]
    /\ UNCHANGED <<fillFrame, gen>>

\* fill_grid is entered (lines 56-58, 67-69): without an empty cell it
\* returns true, else it shuffles the digits for the cell of
\* find_next_mrv.
FillEnter ==
    /\ call.fn = "generate_full_grid"
    /\ call.pc = "call"
    /\ \E m \in {find_next_mrv(call.b)} :
          call' = IF ~m.found THEN [call EXCEPT !.pc = "ret", !.ret = TRUE]
                  ELSE [call EXCEPT !.pc = "for",
                           !.stack = Append(@, [r |-> m.r, c |-> m.c, i |-> 0,
                                                digits |-> shuffled(call.arg, Len(call.stack))])]
    /\ UNCHANGED <<fillFrame, gen>>

\* The digits from position i on that are candidates of the cell (line 60).
fill_next(b, top) ==
    {k \in (top.i + 1)..9 : top.digits[k] \in candidates(b, top.r, top.c)}

\* The loop goes on to its next digit that is a candidate (lines 59-62):
\* the digit is written and fill_grid is called.
FillTry ==
    /\ call.fn = "generate_full_grid"
    /\ call.pc = "for"
    /\ \E top \in {call.stack[Len(call.stack)]} :
       \E k \in fill_next(call.b, top) :
          /\ \A j \in fill_next(call.b, top) : k <= j
          /\ call' = [call EXCEPT !.b = with_value(@, top.r, top.c, top.digits[k]),
                                  !.stack[Len(call.stack)].i = k,
                                  !.pc = "call"]
    /\ UNCHANGED <<fillFrame, gen>>

\* The loop is over (line 66): fill_grid returns false.
FillExhausted ==
    /\ call.fn = "generate_full_grid"
    /\ call.pc = "for"
    /\ fill_next(call.b, call.stack[Len(call.stack)]) = {}
    /\ call' = [call EXCEPT !.pc = "ret", !.ret = FALSE,
                            !.stack = SubSeq(@, 1, Len(@) - 1)]
    /\ UNCHANGED <<fillFrame, gen>>

\* The call of line 62 is back (lines 62-63): true is handed on, on false
\* the cell is emptied and the loop goes on.
FillReturn ==
    /\ call.fn = "generate_full_grid"
    /\ call.pc = "ret"
    /\ call.stack # <<>>
    /\ \E top \in {call.stack[Len(call.stack)]} :
          call' = IF call.ret THEN [call EXCEPT !.stack = SubSeq(@, 1, Len(@) - 1)]
                  ELSE [call EXCEPT !.b = with_value(@, top.r, top.c, 0),
                                    !.undone = @ + 1,
                                    !.pc = "for"]
    /\ UNCHANGED <<fillFrame, gen>>

\* The outermost fill_grid is back (lines 20-23): its result is dropped,
\* the fixed flags are set and the board is returned.
FillDone ==
    /\ call.fn = "generate_full_grid"
    /\ call.pc = "ret"
    /\ call.stack = <<>>
    /\ call' = [call EXCEPT !.pc = "done", !.out = <<mark_fixed(call.b)>>]
    /\ UNCHANGED <<fillFrame, gen>>

\* generate_puzzle(target) goes on with the board generate_full_grid
\* returned (lines 27-31).
GenStartFilled(target) ==
    /\ call.fn = "generate_full_grid"
    /\ call.pc = "done"
    /\ gen.pc = "idle"
    /\ gen' = [pc |-> "loop", b |-> call.out[1], shuffle |-> "descending", todo |-> Cells,
               clues |-> 81, target |-> target, count |-> -1, restores |-> 0]
    /\ UNCHANGED <<fillFrame, call>>

FillStep == FillEnter \/ FillTry \/ FillExhausted \/ FillReturn \/ FillDone

NextFill ==
    \/ \E p \in FillShuffles : FillStart(p)
    \/ FillEnter
    \/ FillTry
    \/ FillExhausted
    \/ FillReturn
    \/ FillDone
    \/ \E target \in FillTargets : GenStartFilled(target)
    \/ \E idx \in Cells : GenIterate(idx)
    \/ GenReturn

\* fill_grid is a sequential program: a call that can take a step takes
\* it.
SpecFill == InitGen /\ [][NextFill]_vars /\ WF_vars(FillStep)

----------------------------------------------------------------------------
(* Claims about Solver::solve_search, checked under SpecSolve              *)

\* The empty cells of a grid.
EmptyCells(grid) == {i \in Cells : grid.cells[i] = 0}

C35_SearchOnClones ==
    [][pc = "search" =>
         /\ \A k \in 1..Len(stack) :
               (k <= Len(stack') /\ stack'[k].st # "true") => stack'[k].grid = stack[k].grid
         /\ stack[1].st # "true" => stack[1].grid = g
         /\ (Top.st = "loop" /\ Top.todo # {}) =>
               \A d \in Top.todo :
                  ((\A e \in Top.todo : d <= e) /\ place_idx(Top.grid, Top.i, d).res # "ok") =>
                      /\ pc' = "search"
                      /\ ret' = ret
                      /\ Len(stack') = Len(stack)
                      /\ stack'[Len(stack)].st = "loop"
                      /\ stack'[Len(stack)].todo = Top.todo \ {d}
         /\ (pc' = "done" /\ Top.st = "false") => g' = g]_vars

\* A SearchOnly solve has ended after its search found no solution: the
\* grid is the one the search was entered with.
C35_Witness ==
    /\ pc = "done"
    /\ mode = "SearchOnly"
    /\ hist.search = "returned"
    /\ ~is_solved(g)
    /\ g = infer_all_candidates(pre).grid

----------------------------------------------------------------------------
(* Claims about the search nodes of both solvers                           *)

\* C36 (as stated, for BacktrackingSolver): a call of rec on a board that
\* has no empty cell and is not solved returns false.
C36_AsStated ==
    (/\ core.solver = "Backtracking"
     /\ core.pc = "ret"
     /\ empty_cells(core.b) = {}
     /\ ~board_is_solved(core.b))
    => ~core.ret

\* The peer-exclusion invariant of the masks: no cell has among its
\* candidates a digit that one of its peers holds.
PeerExclusion(grid) ==
    \A i \in Cells : grid.cells[i] # 0 =>
        \A q \in UnitPeers(i) : grid.cells[i] \notin grid.cands[q]

\* The cells are a completion of the grid consistent with its masks.
CompletionOf(cells, grid) ==
    /\ SolvesPuzzle(cells, grid.cells)
    /\ \A i \in Cells : grid.cells[i] = 0 => cells[i] \in grid.cands[i]

\* One of the known solutions is a completion of the grid.
KnownCompletion(grid) == \E s \in KnownSolutions : CompletionOf(s, grid)

\* Some empty cells of one unit have, all together, fewer candidates than
\* they are cells: the grid has no completion consistent with its masks.
Overfull(grid) ==
    \E u \in 0..26 : \E S \in SUBSET (UnitCells(u) \cap EmptyCells(grid)) :
        Cardinality(UNION {grid.cands[i] : i \in S}) < Cardinality(S)

\* C37: solve_search, entered on a grid whose masks satisfy the
\* peer-exclusion invariant, returns; it leaves the grid fully filled when
\* the grid has a completion consistent with its masks and not fully filled
\* when it has none; and a fully filled grid it leaves is such a
\* completion: no unit has a duplicate and every prefilled cell is as it
\* was.
C37_ExhaustiveSearch ==
    /\ (pc = "search") ~> (pc = "done")
    /\ [][(pc = "search" /\ pc' = "done" /\ PeerExclusion(g)) =>
             /\ KnownCompletion(g) \/ Overfull(g)
             /\ KnownCompletion(g) => is_solved(g')
             /\ Overfull(g) => ~is_solved(g')
             /\ is_solved(g') => CompletionOf(g'.cells, g)]_vars

\* A SearchOnly solve of a puzzle with open cells has ended with the grid
\* fully filled.
C37_Witness ==
    /\ pc = "done"
    /\ mode = "SearchOnly"
    /\ hist.search = "returned"
    /\ ~is_solved(pre)
    /\ PeerExclusion(infer_all_candidates(pre).grid)
    /\ is_solved(g)

----------------------------------------------------------------------------
(* Claims about the generator, checked under SpecCount                     *)

\* The valid completions of a board: the ways to fill its empty cells that
\* leave no duplicate in any unit.  A value that a filled cell of the
\* board shares a unit with is left out from the start.
ValidCompletions(b) ==
    {f \in [empty_cells(b) -> UNION {candidates(b, e \div 9, e % 9) : e \in empty_cells(b)}] :
        /\ \A e \in empty_cells(b) : f[e] \in candidates(b, e \div 9, e % 9)
        /\ is_valid([b EXCEPT !.cells = [r \in 0..8 |-> [c \in 0..8 |->
               IF value_at(b, r, c) = 0 THEN [@[r][c] EXCEPT !.value = f[r * 9 + c]]
               ELSE @[r][c]]]])}

Min(a, b) == IF a <= b THEN a ELSE b

\* C38: count_solutions(b, limit) returns the number of valid completions
\* of b, or the limit if that is less; it writes no value into a cell once
\* the count has reached the limit; and it leaves the board as it was
\* given.
C38_CountCapped ==
    call.fn = "count_solutions" =>
        \E n \in {Cardinality(ValidCompletions(call.arg[1]))} :
           /\ call.out[1] = Min(n, call.arg[2])
           /\ call.out[1] = count_solutions(call.arg[1], call.arg[2])
           /\ call.out[2] = call.arg[1]
           /\ call.out[3] = 0

\* count_solutions has returned the limit on a board that has more valid
\* completions than that.
C38_Witness ==
    /\ call.fn = "count_solutions"
    /\ call.arg[2] > 0
    /\ call.out[1] = call.arg[2]
    /\ Cardinality(ValidCompletions(call.arg[1])) > call.arg[2]

\* C39: generate_full_grid returns, whatever the shuffles, and the board
\* it returns has every cell filled, no duplicate in a row, column or box,
\* and every cell marked fixed; and on the board generate_puzzle returns
\* the cells marked fixed are the cells that hold a digit.
C39_FullGridFixed ==
    /\ (call.fn = "generate_full_grid") ~> (call.fn = "generate_full_grid" /\ call.pc = "done")
    /\ [](call.fn = "generate_full_grid" /\ call.pc = "done" =>
            /\ \A r \in 0..8, c \in 0..8 :
                  call.out[1].cells[r][c].value \in 1..9 /\ call.out[1].cells[r][c].fixed
            /\ is_valid(call.out[1]))
    /\ [](gen.pc = "done" =>
            \A r \in 0..8, c \in 0..8 :
               gen.b.cells[r][c].fixed <=> gen.b.cells[r][c].value # 0)

\* generate_puzzle has returned a board with an empty cell, made from a
\* full grid that fill_grid found after it had taken a digit back.
C39_Witness ==
    /\ gen.pc = "done"
    /\ call.fn = "generate_full_grid"
    /\ call.undone > 0
    /\ \E r \in 0..8, c \in 0..8 : gen.b.cells[r][c].value = 0

----------------------------------------------------------------------------
(* Claims about a failed Grid::set, checked under Spec                     *)

\* C40 (as stated): once set(pos, d) has failed with a contradiction, no
\* peer of pos has d in its mask; and no set that returns Ok places a digit
\* in a cell one of whose peers already holds that digit.
C40_AsStated ==
    /\ (last.op = "set" /\ last.res = "contradiction") =>
           \A q \in UnitPeers(last.idx) : last.d \notin g.cands[q]
    /\ (last.op = "set" /\ last.res = "ok" /\ pre.cells[last.idx] = 0) =>
           last.d \notin PeerValues(pre.cells, last.idx)

====
